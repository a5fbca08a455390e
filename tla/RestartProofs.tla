---------------------------- MODULE RestartProofs ----------------------------
(***************************************************************************)
(* Proofs about sessions of any size, one after another, with any number   *)
(* of crashes and failed flushes between them.  A session that starts from *)
(* what a crash left keeps CoreInv of ReadCacheProofs; MapInv it keeps if  *)
(* the index it has loaded had it.                                         *)
(***************************************************************************)
EXTENDS Restart, ReadCacheProofs

(* What IndexLoadFromSsd will load is true to the SSD. *)
IndexInv ==
  \A s \in Slots : /\ Valid(index, s) => ssd[s].blk = index[s].source_lba
                   /\ ~Populating(index, s)

SessionsInv ==
  /\ CoreInv
  /\ index \in Maps
  /\ faults \in Nat
  /\ ~attached => \A w \in Workers : wk[w].pc = "idle"
  /\ faults = 0 => MapInv /\ (~attached => IndexInv)

-----------------------------------------------------------------------------
(* What is in memory without a session. *)
LEMMA NoMapEmpty ==
  ASSUME block_map \in Maps
  PROVE  /\ NoMap \in Maps /\ Cached(NoMap) = {}
         /\ \A s \in Slots : ~Valid(NoMap, s) /\ ~Populating(NoMap, s)
<1>1. 0 \in Slots
  BY NAssumption DEF Slots
<1>2. block_map[0].source_lba \in Blocks
  BY <1>1 DEF Maps, Entry
<1>3. (CHOOSE b \in Blocks : TRUE) \in Blocks
  BY <1>2
<1>4. NoMap \in Maps
  BY <1>3 DEF NoMap, Maps, Entry, Flag
<1>5. \A s \in Slots : ~Valid(NoMap, s) /\ ~Populating(NoMap, s)
  BY DEF NoMap, Valid, Populating
<1> QED
  BY <1>4, <1>5 DEF Cached

(* Without a population nothing is claimed. *)
LEMMA IdleClaims ==
  ASSUME WorkerShape', \A w \in Workers : wk'[w].pc = "idle"
  PROVE  ExclusiveClaim' /\ StoredData'
<1>1. \A w \in Workers : wk'[w].slot = NoSlot
  BY DEF WorkerShape, WellHeld, Holding
<1> QED
  BY <1>1 DEF ExclusiveClaim, StoredData

-----------------------------------------------------------------------------
(* The first session starts as ReadCache does. *)
LEMMA SessionsInit == RestartInit => SessionsInv
<1> SUFFICES ASSUME RestartInit
             PROVE  SessionsInv
  OBVIOUS
<1>1. IndInv
  BY InitInv DEF RestartInit
<1>2. index \in Maps
  BY <1>1 DEF RestartInit, IndInv, CoreInv, TypeOK, Maps
<1> QED
  BY <1>1, <1>2 DEF RestartInit, SessionsInv, IndInv

(* A step of the session, and a write to the disk without one. *)
LEMMA SessionKeeps ==
  ASSUME SessionsInv, SessionStep \/ DetachedWrite
  PROVE  SessionsInv'
<1>1. Next /\ index' = index /\ attached' = attached /\ faults' = faults
  BY DEF SessionStep, DetachedWrite, Next
<1>2. CoreInv' /\ (MapInv => MapInv')
  BY <1>1, CoreStep DEF SessionsInv
<1>3. CASE SessionStep
  BY <1>1, <1>2, <1>3 DEF SessionsInv, SessionStep
<1>4. CASE DetachedWrite
  <2>1. wk' = wk /\ ssd' = ssd
    BY <1>4 DEF DetachedWrite, HostWrite
  <2>2. IndexInv => IndexInv'
    BY <1>1, <2>1 DEF IndexInv
  <2> QED
    BY <1>1, <1>2, <2>1, <2>2 DEF SessionsInv
<1> QED
  BY <1>3, <1>4

(* A flush in the middle of a session writes what is true or will be         *)
(* overwritten before it is read.                                            *)
LEMMA FlushKeeps ==
  ASSUME SessionsInv, Flush
  PROVE  SessionsInv'
<1>1. UNCHANGED vars /\ index' = block_map /\ attached /\ attached' /\ faults' = faults
  BY DEF Flush
<1>2. CoreInv' /\ (MapInv => MapInv')
  BY <1>1, CoreStep DEF SessionsInv
<1>3. index' \in Maps
  BY <1>1 DEF SessionsInv, CoreInv, TypeOK, Maps
<1> QED
  BY <1>1, <1>2, <1>3 DEF SessionsInv

(* A write of the index that ended early leaves entries of two maps there.   *)
LEMMA TornIsMap ==
  ASSUME index \in Maps, block_map \in Maps, Torn
  PROVE  index' \in Maps
<1>1. PICK written \in SUBSET Slots :
        index' = [s \in Slots |-> IF s \in written THEN block_map[s] ELSE index[s]]
  BY DEF Torn
<1> QED
  BY <1>1 DEF Maps

LEMMA FlushFailsKeeps ==
  ASSUME SessionsInv, FlushFails
  PROVE  SessionsInv'
<1>1. UNCHANGED vars /\ Torn /\ attached /\ attached' /\ faults' = faults + 1
  BY DEF FlushFails
<1>2. CoreInv'
  BY <1>1, CoreStep DEF SessionsInv
<1>3. index \in Maps /\ block_map \in Maps /\ faults \in Nat
  BY DEF SessionsInv, CoreInv, TypeOK, Maps
<1>4. index' \in Maps /\ faults' \in Nat /\ faults' # 0
  BY <1>1, <1>3, TornIsMap
<1> QED
  BY <1>1, <1>2, <1>4 DEF SessionsInv

(* The end of a session at which nothing is in progress. *)
LEMMA SessionEndsIdle ==
  ASSUME SessionsInv, Quiet, SessionEnds
  PROVE  CoreInv' /\ MapInv'
<1>1. /\ block_map' = NoMap /\ cached_block_count' = 0
      /\ UNCHANGED <<lru_scan_cursor, tick, ssd, hdd, rd, wk>>
  BY DEF SessionEnds, disks
<1>2. \A w \in Workers : wk'[w].pc = "idle"
  BY <1>1 DEF Quiet
<1>3. TypeOK /\ ReaderShape /\ WorkerShape /\ block_map \in Maps
  BY DEF SessionsInv, CoreInv, TypeOK, Maps
<1>4. /\ NoMap \in Maps /\ Cached(NoMap) = {}
      /\ \A s \in Slots : ~Valid(NoMap, s) /\ ~Populating(NoMap, s)
  BY <1>3, NoMapEmpty
<1>5. TypeOK' /\ ReaderShape' /\ WorkerShape'
  BY <1>1, <1>3, <1>4 DEF TypeOK, ReaderShape, WorkerShape, Maps
<1>6. CountExact'
  BY <1>1, <1>4, FS_EmptySet DEF CountExact
<1>7. MapInv'
  BY <1>1, <1>4 DEF MapInv, PopulatingOwned, ValidMatchesSsd
<1>8. CoreInv'
  BY <1>2, <1>5, <1>6, IdleClaims DEF CoreInv
<1> QED
  BY <1>7, <1>8

(* A detach leaves a true index, if it can be flushed.                       *)
LEMMA DetachKeeps ==
  ASSUME SessionsInv, Detach \/ DetachFlushFails
  PROVE  SessionsInv'
<1>1. /\ attached /\ Quiet /\ SessionEnds /\ attached' = FALSE
      /\ UNCHANGED <<ssd, wk>>
  BY DEF Detach, DetachFlushFails, SessionEnds, disks
<1>2. CoreInv' /\ MapInv'
  BY <1>1, SessionEndsIdle
<1>3. \A w \in Workers : wk'[w].pc = "idle" /\ wk[w].pc = "idle"
  BY <1>1 DEF Quiet
<1>4. faults \in Nat /\ index \in Maps /\ block_map \in Maps /\ WorkerShape
  BY DEF SessionsInv, CoreInv, TypeOK, Maps
<1>5. CASE Detach
  <2>1. index' = block_map /\ faults' = faults
    BY <1>5 DEF Detach
  <2>2. ASSUME faults = 0
        PROVE  IndexInv'
    <3>1. ValidMatchesSsd /\ PopulatingOwned
      BY <2>2 DEF SessionsInv, MapInv
    <3>2. \A s \in Slots : ~Populating(block_map, s)
      BY <1>3, <3>1 DEF PopulatingOwned, Owner, Holding
    <3> QED
      BY <1>1, <2>1, <3>1, <3>2 DEF IndexInv, ValidMatchesSsd
  <2> QED
    BY <1>2, <1>3, <1>4, <2>1, <2>2 DEF SessionsInv
<1>6. CASE DetachFlushFails
  <2>1. Torn /\ faults' = faults + 1
    BY <1>6 DEF DetachFlushFails
  <2>2. faults' # 0 /\ faults' \in Nat /\ index' \in Maps
    BY <1>4, <2>1, TornIsMap
  <2> QED
    BY <1>1, <1>2, <1>3, <2>2 DEF SessionsInv
<1> QED
  BY <1>5, <1>6

(* A crash leaves entries of two maps in the index, and nothing in memory.   *)
LEMMA CrashKeeps ==
  ASSUME SessionsInv, Crash
  PROVE  SessionsInv'
<1>1. /\ faults' = faults + 1 /\ attached' = FALSE /\ Torn
      /\ block_map' = NoMap /\ cached_block_count' = 0 /\ tick' = 0
      /\ rd' = [r \in Readers |-> IdleReader] /\ wk' = [w \in Workers |-> IdleWorker]
      /\ UNCHANGED <<lru_scan_cursor, ssd, hdd>>
  BY DEF Crash, disks
<1>2. faults \in Nat /\ index \in Maps /\ block_map \in Maps /\ TypeOK
  BY DEF SessionsInv, CoreInv, TypeOK, Maps
<1>3. faults' # 0 /\ faults' \in Nat
  BY <1>1, <1>2
<1>4. index' \in Maps
  BY <1>1, <1>2, TornIsMap
<1>5. NoMap \in Maps /\ Cached(NoMap) = {}
  BY <1>2, NoMapEmpty
<1>6. TypeOK'
  BY <1>1, <1>2, <1>5, IdleReaderType, IdleWorkerType DEF TypeOK, Maps
<1>7. ReaderShape' /\ WorkerShape'
  BY <1>1, IdleWorkerType DEF ReaderShape, Shaped, IdleReader, WorkerShape
<1>8. \A w \in Workers : wk'[w].pc = "idle"
  BY <1>1 DEF IdleWorker
<1>9. CountExact'
  BY <1>1, <1>5, FS_EmptySet DEF CountExact
<1>10. CoreInv'
  BY <1>6, <1>7, <1>8, <1>9, IdleClaims DEF CoreInv
<1> QED
  BY <1>1, <1>3, <1>4, <1>8, <1>10 DEF SessionsInv

(* An attach counts what it has loaded; a true index makes a true map.       *)
LEMMA AttachKeeps ==
  ASSUME SessionsInv, Attach
  PROVE  SessionsInv'
<1>1. /\ ~attached /\ attached' = TRUE /\ block_map' = index
      /\ cached_block_count' = Cardinality(Cached(index)) /\ lru_scan_cursor' = 0
      /\ UNCHANGED <<tick, ssd, hdd, rd, wk, index, faults>>
  BY DEF Attach, CountLoaded, disks
<1>2. /\ index \in Maps /\ TypeOK /\ ReaderShape /\ WorkerShape
      /\ \A w \in Workers : wk'[w].pc = "idle"
  BY <1>1 DEF SessionsInv, CoreInv
<1>3. TypeOK'
  BY <1>1, <1>2, CachedFinite, NAssumption DEF TypeOK, Maps, Slots
<1>4. ReaderShape' /\ WorkerShape'
  BY <1>1, <1>2 DEF ReaderShape, WorkerShape
<1>5. CountExact'
  BY <1>1 DEF CountExact
<1>6. CoreInv'
  BY <1>2, <1>3, <1>4, <1>5, IdleClaims DEF CoreInv
<1>7. ASSUME faults = 0
      PROVE  MapInv'
  BY <1>1, <1>7 DEF SessionsInv, IndexInv, MapInv, ValidMatchesSsd, PopulatingOwned
<1> QED
  BY <1>1, <1>2, <1>6, <1>7 DEF SessionsInv

-----------------------------------------------------------------------------
(* What holds of every session, whatever came before it.                     *)
THEOREM SessionsInvariance == RestartSpec => []SessionsInv
<1>1. SessionsInv /\ [RestartNext]_rvars => SessionsInv'
  <2> SUFFICES ASSUME SessionsInv, [RestartNext]_rvars
               PROVE  SessionsInv'
    OBVIOUS
  <2>1. CASE UNCHANGED rvars
    <3>1. CoreInv' /\ (MapInv => MapInv')
      BY <2>1, CoreStep DEF rvars, SessionsInv
    <3>2. UNCHANGED <<index, attached, faults, ssd, wk>>
      BY <2>1 DEF rvars, vars
    <3> QED
      BY <3>1, <3>2 DEF SessionsInv, IndexInv
  <2> QED
    BY <2>1, SessionKeeps, FlushKeeps, FlushFailsKeeps, DetachKeeps, CrashKeeps, AttachKeeps DEF RestartNext
<1> QED
  BY <1>1, SessionsInit, PTL DEF RestartSpec

(* The count of VALID entries is exact in every session, also in one that    *)
(* has loaded an index with slots left POPULATING, or entries of two maps.   *)
THEOREM CountIsExactInSessions == RestartSpec => []CountExact
<1>1. SessionsInv => CountExact
  BY DEF SessionsInv, CoreInv
<1> QED
  BY <1>1, SessionsInvariance, PTL

(* Without a fault, a session that was flushed at any time and detached      *)
(* hands the next one a map that is true to the SSD.                         *)
THEOREM CleanMapsMatch == RestartSpec => []CleanMapMatchesSsd
<1>1. SessionsInv => CleanMapMatchesSsd
  BY DEF SessionsInv, MapInv, CleanMapMatchesSsd
<1> QED
  BY <1>1, SessionsInvariance, PTL

(* Without a fault, no session starts with a slot that is out of use.        *)
THEOREM CleanMapsOwned == RestartSpec => []CleanMapIsOwned
<1>1. SessionsInv => CleanMapIsOwned
  BY DEF SessionsInv, MapInv, CleanMapIsOwned
<1> QED
  BY <1>1, SessionsInvariance, PTL

-----------------------------------------------------------------------------
(* A slot that is POPULATING for nobody. *)
Orphan(s) == Populating(block_map, s) /\ Owner(s) = {}

(* A lookup touches no POPULATING slot, and a read claims no slot.           *)
LEMMA ReaderSparesOrphans ==
  ASSUME CoreInv, NEW r \in Readers, ReadArrive(r) \/ ReadStep(r),
         NEW s \in Slots, Orphan(s)
  PROVE  Owner(s)' = {} /\ block_map'[s] = block_map[s] /\ ssd'[s] = ssd[s]
<1>0. /\ TypeOK /\ ReaderShape /\ WorkerShape /\ block_map \in Maps
      /\ wk \in [Workers -> Worker]
  BY DEF CoreInv, TypeOK, Maps
<1>1. ReaderEffect
  BY <1>0, ReaderStepEffect
<1>2. \A u \in Workers : wk'[u].slot = wk[u].slot
  <2>1. \A u \in Workers : wk[u].pc = "idle" => wk[u].slot = NoSlot
    BY <1>0 DEF WorkerShape, WellHeld, Holding
  <2> QED
    BY <1>0, <1>1, <2>1 DEF ReaderEffect, IdleWorker
<1>3. block_map'[s] = block_map[s]
  <2>1. CASE CheckHit(r) \/ ServeHit(r)
    <3>1. PICK t \in Slots : /\ IsHit(block_map, rd[r].cur, t)
                             /\ block_map' = Touched(block_map, t, tick)
      BY <2>1 DEF CheckHit, ServeHit
    <3>2. t # s
      BY <3>1 DEF IsHit, Match, Orphan
    <3> QED
      BY <1>0, <3>1, <3>2 DEF Touched, Maps
  <2>2. CASE ~(CheckHit(r) \/ ServeHit(r))
    <3>1. block_map' = block_map
      BY <2>2 DEF ReadStep, ReadArrive, CheckMiss, ServeBegin, ServeNoBuffer, ServeMiss,
         SsdReadOk, SsdReadFail, ServeEnd, HddReadOk, HddReadFail, FillQueue, FillRefused,
         FillEnd, ReadComplete, shared
    <3> QED
      BY <3>1
  <2> QED
    BY <2>1, <2>2
<1> QED
  BY <1>1, <1>2, <1>3 DEF ReaderEffect, Orphan, Owner

(* A population touches the slot it has claimed, and claims VALID ones only. *)
LEMMA WorkerSparesOrphans ==
  ASSUME CoreInv, NEW w \in Workers, WorkStep(w), NEW s \in Slots, Orphan(s)
  PROVE  Owner(s)' = {} /\ block_map'[s] = block_map[s] /\ ssd'[s] = ssd[s]
<1>0. /\ TypeOK /\ WorkerShape /\ block_map \in Maps /\ ssd \in [Slots -> Data]
      /\ wk \in [Workers -> Worker] /\ wk[w] \in Worker /\ WellHeld(wk[w])
      /\ \A v \in Workers \ {w} : wk'[v] = wk[v]
  BY WorkerStepLocal DEF CoreInv, TypeOK, Maps, WorkerShape
<1>1. \A u \in Workers : wk[u].slot # s
  BY DEF Orphan, Owner
<1>2. s # NoSlot
  BY NAssumption DEF Slots, NoSlot
<1>3. SUFFICES wk'[w].slot # s /\ block_map'[s] = block_map[s] /\ ssd'[s] = ssd[s]
  BY <1>0, <1>1 DEF Owner
<1>4. CASE WorkEvict(w)
  <2>1. PICK v \in Slots : /\ IsVictim(block_map, lru_scan_cursor, v)
                           /\ block_map' = Evicted(block_map, lru_scan_cursor, v)
                           /\ wk' = [wk EXCEPT ![w].pc = "mark", ![w].slot = v]
    BY <1>4 DEF WorkEvict
  <2>2. v # s
    BY <2>1, VictimEvictable DEF Orphan
  <2>3. s \notin Passed(block_map, lru_scan_cursor, v)
    BY DEF Passed, Evictable, Orphan
  <2>4. block_map'[s] = block_map[s]
    BY <1>0, <2>1, <2>2, <2>3 DEF Evicted, Maps, Entry
  <2>5. wk'[w].slot = v /\ ssd' = ssd
    BY <1>0, <1>4, <2>1 DEF WorkEvict, Worker, disks
  <2> QED
    BY <2>2, <2>4, <2>5
<1>5. CASE WorkCached(w)
  <2>1. PICK t \in Slots : /\ IsHit(block_map, wk[w].blk, t)
                           /\ block_map' = Touched(block_map, t, tick)
    BY <1>5 DEF WorkCached
  <2>2. t # s
    BY <2>1 DEF IsHit, Match, Orphan
  <2>3. block_map'[s] = block_map[s]
    BY <1>0, <2>1, <2>2 DEF Touched, Maps
  <2> QED
    BY <1>0, <1>2, <1>5, <2>3 DEF WorkCached, IdleWorker, disks
<1>6. CASE wk[w].pc \in Holding /\ ~WorkEvict(w) /\ ~WorkCached(w)
  <2>1. wk'[w].slot \in {wk[w].slot, NoSlot}
    BY <1>0, <1>6 DEF WorkStep, WorkNoBuffer, WorkMiss, WorkNoVictim, WorkMark, SourceRead,
       SourceFail, StoreRefused, StoreBegin, StoreEnd, StoreFail, WorkPublish, WorkAbort,
       IdleWorker, Worker
  <2>2. \/ block_map' = block_map
        \/ block_map' = Marked(block_map, wk[w].slot)
        \/ block_map' = Published(block_map, wk[w].slot, wk[w].blk, tick)
        \/ block_map' = Restored(block_map, wk[w].slot)
    BY <1>6 DEF WorkStep, WorkNoBuffer, WorkMiss, WorkNoVictim, WorkMark, SourceRead,
       SourceFail, StoreRefused, StoreBegin, StoreEnd, StoreFail, WorkPublish, WorkAbort, shared
  <2>3. block_map'[s] = block_map[s]
    BY <1>0, <1>1, <2>2 DEF Marked, Published, Restored, Maps
  <2>4. ssd' = ssd \/ \E d : ssd' = [ssd EXCEPT ![wk[w].slot] = d]
    BY <1>6 DEF WorkStep, WorkNoBuffer, WorkMiss, WorkNoVictim, WorkMark, SourceRead,
       SourceFail, StoreRefused, StoreBegin, StoreEnd, StoreFail, WorkPublish, WorkAbort, disks
  <2>5. ssd'[s] = ssd[s]
    BY <1>0, <1>1, <2>4
  <2> QED
    BY <1>1, <1>2, <2>1, <2>3, <2>5
<1>7. CASE WorkNoBuffer(w) \/ WorkMiss(w) \/ WorkNoVictim(w)
  BY <1>0, <1>1, <1>2, <1>7 DEF WorkNoBuffer, WorkMiss, WorkNoVictim, IdleWorker, Worker,
     shared, disks
<1> QED
  BY <1>4, <1>5, <1>6, <1>7
  DEF WorkStep, WorkMark, SourceRead, SourceFail, StoreRefused, StoreBegin, StoreEnd, StoreFail,
      WorkPublish, WorkAbort, Holding

(* What a crash has left POPULATING is out of use to the end of the session: *)
(* it is never claimed, and neither its entry nor its data change.           *)
THEOREM OrphansStay == RestartSpec => OrphansUntouched
<1> DEFINE Spared == \A s \in Slots :
             attached /\ attached' /\ Populating(block_map, s) /\ Owner(s) = {}
               => Owner(s)' = {} /\ block_map'[s] = block_map[s] /\ ssd'[s] = ssd[s]
<1>1. ASSUME SessionsInv, [RestartNext]_rvars
      PROVE  Spared
  <2> SUFFICES ASSUME NEW s \in Slots, attached, attached', Orphan(s)
               PROVE  Owner(s)' = {} /\ block_map'[s] = block_map[s] /\ ssd'[s] = ssd[s]
    BY DEF Orphan
  <2>0. CoreInv
    BY <1>1 DEF SessionsInv
  <2>1. CASE UNCHANGED <<block_map, ssd, wk>>
    BY <2>1 DEF Orphan, Owner
  <2>2. CASE SessionStep
    <3>1. CASE \E r \in Readers : ReadArrive(r) \/ ReadStep(r)
      BY <2>0, <3>1, ReaderSparesOrphans
    <3>2. CASE \E w \in Workers : WorkStep(w)
      BY <2>0, <3>2, WorkerSparesOrphans
    <3>3. CASE (\E b \in Blocks : HostWrite(b)) \/ Tick
      BY <2>1, <3>3 DEF HostWrite, Tick, shared, disks
    <3> QED
      BY <2>2, <3>1, <3>2, <3>3 DEF SessionStep, Next
  <2> QED
    BY <1>1, <2>1, <2>2 DEF RestartNext, DetachedWrite, Flush, FlushFails, Detach, DetachFlushFails,
       SessionEnds, Crash, Attach, rvars, vars
<1>2. SessionsInv /\ [RestartNext]_rvars => [Spared]_rvars
  BY <1>1
<1> QED
  BY <1>2, SessionsInvariance, PTL DEF RestartSpec, OrphansUntouched

=============================================================================
