--------------------------- MODULE MapLoopsProofs ---------------------------
(***************************************************************************)
(* The two loops over the block map compute what BlockMap says they do,    *)
(* for every number of slots, every probe limit, every map and every       *)
(* argument.                                                               *)
(***************************************************************************)
EXTENDS MapLoops, BlockMapProofs

-----------------------------------------------------------------------------
(* Probes and the hand *)

(* A sum that passes the end of the map once wraps to the start.             *)
LEMMA Wraps ==
  ASSUME NEW x \in 0 .. (2 * N - 1)
  PROVE  x % N = IF x < N THEN x ELSE x - N
BY NAssumption

(* Every probe is a slot.                                                    *)
LEMMA ProbeInRange ==
  ASSUME NEW b \in Nat, NEW j \in Nat
  PROVE  Probe(b, j) \in Slots
BY NAssumption DEF Probe, Slots

(* The hand meets every slot once in N steps, the slot s at step Dist.       *)
LEMMA HandMeets ==
  ASSUME NEW cur \in Slots, NEW k \in 0 .. (N - 1)
  PROVE  /\ (cur + k) % N \in Slots
         /\ \A s \in Slots : Dist(cur, s) = k <=> s = (cur + k) % N
<1>1. cur + k \in 0 .. (2 * N - 1)
  BY NAssumption DEF Slots
<1>2. (cur + k) % N = IF cur + k < N THEN cur + k ELSE (cur + k) - N
  BY <1>1, Wraps
<1> QED  BY <1>1, <1>2, NAssumption DEF Slots, Dist

(* It has met all of them after N steps.                                     *)
LEMMA DistInRange ==
  ASSUME NEW cur \in Slots, NEW s \in Slots
  PROVE  Dist(cur, s) \in 0 .. (N - 1)
BY NAssumption DEF Slots, Dist

-----------------------------------------------------------------------------
(* The inductive invariant *)

(* No probe of lba before the k-th ends the chain.                           *)
ChainTo(k) ==
  \A j \in 0 .. (k - 1) :
    ~Vacant(map0, Probe(lba, j)) /\ ~Match(map0, Probe(lba, j), lba)

LookupInv ==
  /\ lba \in Blocks
  /\ i \in 0 .. ProbeMax
  /\ pc = "loop" => block_map = map0 /\ result = NoSlot /\ ChainTo(i)

(* The candidates that the scan has passed after k steps.                    *)
Seen(k) == {s \in Evictable(map0) : Dist(cursor0, s) < k}

(* Their reference bits are cleared, and nothing else is changed.            *)
ClearedTo(k) ==
  [s \in Slots |->
    IF s \in Seen(k) THEN [map0[s] EXCEPT !.flags = @ \ {"ACCESSED"}]
                     ELSE map0[s]]

(* The locals hold the oldest of them, the last one of those equally old.    *)
OldestOf(k) ==
  IF Seen(k) = {}
    THEN oldest_slot = NoSlot /\ oldest_time = NoTime
    ELSE /\ oldest_slot \in Seen(k)
         /\ oldest_time = map0[oldest_slot].last_access
         /\ \A s \in Seen(k) :
              \/ map0[oldest_slot].last_access < map0[s].last_access
              \/ /\ map0[oldest_slot].last_access = map0[s].last_access
                 /\ Dist(cursor0, s) <= Dist(cursor0, oldest_slot)

ScanInv ==
  /\ cursor0 \in Slots
  /\ i \in 0 .. N
  /\ pc = "loop" =>
       /\ block_map = ClearedTo(i)
       /\ \A s \in Seen(i) : Accessed(map0, s)
       /\ OldestOf(i)
       /\ cached_block_count = count0
       /\ lru_scan_cursor = cursor0
       /\ result = NoSlot

LoopInv ==
  /\ op \in {"lookup", "victim"}
  /\ map0 \in Maps
  /\ op = "lookup" => LookupInv
  /\ op = "victim" => ScanInv

Answers == ReturnsHit /\ ReturnsMiss /\ ReturnsVictim /\ ReturnsNone

IndInv == LoopInv /\ Answers

-----------------------------------------------------------------------------
(* CacheLookup *)

(* A match on a probe that no earlier probe cut off is a hit.                *)
LEMMA HitAnswer ==
  ASSUME LookupInv, map0 \in Maps, Probing, i < ProbeMax,
         Match(map0, ProbeSlot, lba)
  PROVE  ProbeSlot \in Slots /\ IsHit(map0, lba, ProbeSlot)
<1>1. lba \in Nat /\ i \in Nat
  BY BlocksAssumption, ProbeAssumption DEF LookupInv
<1>2. ProbeSlot \in Slots
  BY <1>1, ProbeInRange DEF ProbeSlot
<1>3. i \in Probes
  BY <1>1, ProbeAssumption DEF Probes
<1>4. ChainTo(i)
  BY DEF LookupInv, Probing
<1> QED  BY <1>2, <1>3, <1>4 DEF IsHit, ChainTo, ProbeSlot

(* Where the chain ends without a match there is no hit, neither before nor  *)
(* after.                                                                    *)
LEMMA MissAnswer ==
  ASSUME LookupInv, Probing,
         i = ProbeMax \/ (i < ProbeMax /\ Vacant(map0, ProbeSlot))
  PROVE  IsMiss(map0, lba)
<1> SUFFICES ASSUME NEW s \in Slots, NEW p \in Probes,
                    s = Probe(lba, p), Match(map0, s, lba),
                    \A j \in 0 .. (p - 1) : ~Vacant(map0, Probe(lba, j))
             PROVE  FALSE
  BY DEF IsMiss, IsHit
<1>1. ChainTo(i) /\ i \in 0 .. ProbeMax
  BY DEF LookupInv, Probing
<1>2. p \in Nat /\ p < ProbeMax
  BY ProbeAssumption DEF Probes
<1>3. CASE p < i
  BY <1>1, <1>2, <1>3, ProbeAssumption DEF ChainTo
<1>4. CASE p = i
  BY <1>2, <1>4 DEF ProbeSlot, Match, Vacant
<1>5. CASE p > i
  <2>1. i \in 0 .. (p - 1) /\ Vacant(map0, Probe(lba, i))
    BY <1>1, <1>2, <1>5, ProbeAssumption DEF ProbeSlot
  <2> QED  BY <2>1
<1> QED  BY <1>1, <1>2, <1>3, <1>4, <1>5, ProbeAssumption

(* Every iteration of the lookup keeps the invariant or answers rightly.     *)
LEMMA LookupStep ==
  ASSUME IndInv, LookupNext
  PROVE  IndInv'
<1>1. op = "lookup" /\ pc = "loop" /\ LookupInv /\ map0 \in Maps
  BY DEF IndInv, LoopInv, LookupNext, Hit, ChainEnd, Advance, Exhausted, Probing
<1>2. block_map = map0 /\ result = NoSlot /\ ChainTo(i)
  BY <1>1 DEF LookupInv
<1>3. CASE Hit
  <2>1. ProbeSlot \in Slots /\ IsHit(map0, lba, ProbeSlot)
    BY <1>1, <1>2, <1>3, HitAnswer DEF Hit
  <2>2. /\ UNCHANGED <<args, i>> /\ pc' = "return" /\ result' = ProbeSlot
        /\ block_map' = Touched(map0, ProbeSlot, Now)
    BY <1>2, <1>3 DEF Hit
  <2>3. result' # NoSlot
    BY <2>1, <2>2, NAssumption DEF Slots, NoSlot
  <2> QED
    BY <1>1, <2>1, <2>2, <2>3
    DEF IndInv, LoopInv, LookupInv, Answers, ReturnsHit, ReturnsMiss,
        ReturnsVictim, ReturnsNone, Returned, args
<1>4. CASE ChainEnd \/ Exhausted
  <2>1. /\ Probing
        /\ i = ProbeMax \/ (i < ProbeMax /\ Vacant(map0, ProbeSlot))
    BY <1>2, <1>4 DEF ChainEnd, Exhausted
  <2>3. IsMiss(map0, lba)
    BY <1>1, <2>1, MissAnswer
  <2>2. UNCHANGED <<args, i, block_map, result>> /\ pc' = "return"
    BY <1>4 DEF ChainEnd, Exhausted
  <2> QED
    BY <1>1, <1>2, <2>2, <2>3
    DEF IndInv, LoopInv, LookupInv, Answers, ReturnsHit, ReturnsMiss,
        ReturnsVictim, ReturnsNone, Returned, args
<1>5. CASE Advance
  <2>1. /\ UNCHANGED <<args, block_map, pc, result>> /\ i' = i + 1
        /\ i < ProbeMax
        /\ ~Match(map0, Probe(lba, i), lba) /\ ~Vacant(map0, Probe(lba, i))
    BY <1>2, <1>5 DEF Advance, ProbeSlot
  <2>2. i' \in 0 .. ProbeMax /\ \A j \in 0 .. (i' - 1) : j = i \/ j \in 0 .. (i - 1)
    BY <1>1, <2>1, ProbeAssumption DEF LookupInv
  <2>3. ChainTo(i)'
    BY <1>2, <2>1, <2>2 DEF ChainTo, args
  <2> QED
    BY <1>1, <1>2, <2>1, <2>2, <2>3
    DEF IndInv, LoopInv, LookupInv, Answers, ReturnsHit, ReturnsMiss,
        ReturnsVictim, ReturnsNone, Returned, args
<1> QED  BY <1>3, <1>4, <1>5 DEF LookupNext

-----------------------------------------------------------------------------
(* LruClockFindVictim *)

(* What the loop knows in each iteration: the hand is at Current, which is   *)
(* as it was at the start and not among the slots passed.                    *)
ScanFacts ==
  /\ op = "victim" /\ pc = "loop"
  /\ map0 \in Maps
  /\ ScanInv
  /\ i < N =>
       /\ Current \in Slots
       /\ Current \notin Seen(i)
       /\ block_map[Current] = map0[Current]
       /\ Current \in Evictable(block_map) <=> Current \in Evictable(map0)
       /\ Accessed(block_map, Current) <=> Accessed(map0, Current)
       /\ Seen(i + 1) = Seen(i) \cup ({Current} \cap Evictable(map0))
       /\ \A s \in Seen(i) : Dist(cursor0, s) < Dist(cursor0, Current)
       /\ Dist(cursor0, Current) = i
  /\ i = N => Seen(i) = Evictable(map0)

LEMMA ScanKnows ==
  ASSUME IndInv, ScanNext
  PROVE  ScanFacts
<1>1. op = "victim" /\ pc = "loop" /\ map0 \in Maps /\ ScanInv
  BY DEF IndInv, LoopInv, ScanNext, Skip, SecondChance, Take, TakeOldest,
         NoVictim, Scanning
<1>2. cursor0 \in Slots /\ i \in 0 .. N /\ block_map = ClearedTo(i)
  BY <1>1 DEF ScanInv
<1>3. ASSUME i < N
      PROVE  /\ Current \in Slots
             /\ \A s \in Slots : Dist(cursor0, s) = i <=> s = Current
  <2>1. i \in 0 .. (N - 1)
    BY <1>2, <1>3, NAssumption
  <2> QED  BY <1>2, <2>1, HandMeets DEF Current
<1>4. ASSUME i < N
      PROVE  /\ Current \notin Seen(i)
             /\ \A s \in Seen(i) : Dist(cursor0, s) < Dist(cursor0, Current)
             /\ Dist(cursor0, Current) = i
  BY <1>2, <1>3, <1>4, NAssumption DEF Seen
<1>5. ASSUME i < N
      PROVE  block_map[Current] = map0[Current]
  BY <1>2, <1>3, <1>4, <1>5 DEF ClearedTo
<1>6. ASSUME i < N
      PROVE  /\ Current \in Evictable(block_map) <=> Current \in Evictable(map0)
             /\ Accessed(block_map, Current) <=> Accessed(map0, Current)
  BY <1>5, <1>6 DEF Evictable, Valid, Populating, Pinned, Accessed
<1>7. ASSUME NEW s \in Evictable(map0)
      PROVE  s \in Slots /\ Dist(cursor0, s) \in 0 .. (N - 1)
  BY <1>2, DistInRange DEF Evictable
<1>8. ASSUME i < N
      PROVE  Seen(i + 1) = Seen(i) \cup ({Current} \cap Evictable(map0))
  <2>1. ASSUME NEW s \in Evictable(map0)
        PROVE  Dist(cursor0, s) < i + 1 <=> Dist(cursor0, s) < i \/ s = Current
    BY <1>2, <1>3, <1>7, <1>8, <2>1, NAssumption
  <2> QED  BY <2>1 DEF Seen
<1>9. i = N => Seen(i) = Evictable(map0)
  BY <1>7, NAssumption DEF Seen
<1> QED  BY <1>1, <1>3, <1>4, <1>5, <1>6, <1>8, <1>9 DEF ScanFacts

(* The comparison of the code keeps the last of the oldest.                  *)
LEMMA TracksOldest ==
  ASSUME ScanFacts, i < N, Current \in Evictable(map0), TrackOldest
  PROVE  /\ oldest_slot' \in Seen(i + 1)
         /\ oldest_time' = map0[oldest_slot'].last_access
         /\ \A s \in Seen(i + 1) :
              \/ map0[oldest_slot'].last_access < map0[s].last_access
              \/ /\ map0[oldest_slot'].last_access = map0[s].last_access
                 /\ Dist(cursor0, s) <= Dist(cursor0, oldest_slot')
<1>1. /\ OldestOf(i) /\ Seen(i + 1) = Seen(i) \cup {Current}
      /\ Current \in Slots /\ block_map[Current] = map0[Current]
      /\ \A s \in Seen(i) : Dist(cursor0, s) < Dist(cursor0, Current)
      /\ cursor0 \in Slots
  BY DEF ScanFacts, ScanInv
<1>2. ASSUME NEW s \in Seen(i + 1)
      PROVE  map0[s].last_access \in Nat /\ Dist(cursor0, s) \in Int
  BY <1>1, <1>2, DistInRange, NAssumption
     DEF ScanFacts, Maps, Entry, Seen, Evictable
<1>3. CASE Older
  <2>1. oldest_slot' = Current /\ oldest_time' = map0[Current].last_access
    BY <1>1, <1>3 DEF TrackOldest
  <2>2. ASSUME NEW s \in Seen(i)
        PROVE  map0[Current].last_access <= map0[s].last_access
    <3>1. /\ oldest_slot \in Seen(i) /\ oldest_time = map0[oldest_slot].last_access
          /\ \/ map0[oldest_slot].last_access < map0[s].last_access
             \/ map0[oldest_slot].last_access = map0[s].last_access
      BY <1>1, <2>2 DEF OldestOf
    <3>2. oldest_time \in Nat /\ oldest_time # NoTime
      BY <1>1, <1>2, <3>1 DEF NoTime
    <3>3. map0[Current].last_access <= oldest_time
      BY <1>1, <1>3, <3>2 DEF Older
    <3> QED  BY <1>1, <1>2, <3>1, <3>2, <3>3
  <2>3. ASSUME NEW s \in Seen(i + 1)
        PROVE  /\ map0[Current].last_access <= map0[s].last_access
               /\ Dist(cursor0, s) <= Dist(cursor0, Current)
    BY <1>1, <1>2, <2>2, <2>3
  <2> QED  BY <1>1, <1>2, <2>1, <2>3
<1>4. CASE ~Older
  <2>1. oldest_slot' = oldest_slot /\ oldest_time' = oldest_time
    BY <1>4 DEF TrackOldest
  <2>2. oldest_time # NoTime /\ ~(map0[Current].last_access <= oldest_time)
    BY <1>1, <1>4 DEF Older
  <2>3. /\ oldest_slot \in Seen(i) /\ oldest_time = map0[oldest_slot].last_access
        /\ \A s \in Seen(i) :
              \/ map0[oldest_slot].last_access < map0[s].last_access
              \/ /\ map0[oldest_slot].last_access = map0[s].last_access
                 /\ Dist(cursor0, s) <= Dist(cursor0, oldest_slot)
    BY <1>1, <2>2 DEF OldestOf
  <2>4. map0[oldest_slot].last_access < map0[Current].last_access
    BY <1>1, <1>2, <2>2, <2>3
  <2> QED  BY <1>1, <2>1, <2>3, <2>4
<1> QED  BY <1>3, <1>4

(* What the map becomes on the way from one slot to the next.                *)
LEMMA ClearsCurrent ==
  ASSUME ScanFacts, i < N
  PROVE  /\ Current \notin Evictable(map0) => ClearedTo(i + 1) = ClearedTo(i)
         /\ Current \in Evictable(map0) =>
              ClearedTo(i + 1) =
                [block_map EXCEPT ![Current].flags = @ \ {"ACCESSED"}]
<1>1. /\ Seen(i + 1) = Seen(i) \cup ({Current} \cap Evictable(map0))
      /\ Current \in Slots /\ Current \notin Seen(i)
      /\ block_map = ClearedTo(i)
  BY DEF ScanFacts, ScanInv
<1> QED  BY <1>1 DEF ClearedTo

(* While it scans, the loop keeps the invariant.                             *)
LEMMA ScanOn ==
  ASSUME IndInv, Skip \/ SecondChance
  PROVE  IndInv'
<1>1. ScanFacts
  BY ScanKnows DEF ScanNext
<1>2. /\ i < N /\ op = "victim" /\ pc = "loop" /\ map0 \in Maps
      /\ i \in 0 .. N /\ cursor0 \in Slots
      /\ block_map = ClearedTo(i) /\ OldestOf(i) /\ result = NoSlot
      /\ \A s \in Seen(i) : Accessed(map0, s)
      /\ cached_block_count = count0 /\ lru_scan_cursor = cursor0
      /\ Current \in Evictable(block_map) <=> Current \in Evictable(map0)
      /\ Accessed(block_map, Current) <=> Accessed(map0, Current)
      /\ Seen(i + 1) = Seen(i) \cup ({Current} \cap Evictable(map0))
  BY <1>1 DEF ScanFacts, ScanInv, Skip, SecondChance
<1>3. /\ UNCHANGED <<args, cached_block_count, lru_scan_cursor, pc, result>>
      /\ i' = i + 1 /\ i' \in 0 .. N
  BY <1>2, NAssumption DEF Skip, SecondChance, scan
<1>4. /\ Seen(i)' = Seen(i + 1)
      /\ ClearedTo(i)' = ClearedTo(i + 1)
  BY <1>3 DEF args, Seen, ClearedTo
<1>5. block_map' = ClearedTo(i + 1) /\ \A s \in Seen(i + 1) : Accessed(map0, s)
  <2>1. CASE Skip
    BY <1>1, <1>2, <2>1, ClearsCurrent DEF Skip
  <2>2. CASE SecondChance
    BY <1>1, <1>2, <2>2, ClearsCurrent DEF SecondChance
  <2> QED  BY <2>1, <2>2
<1>6. OldestOf(i)'
  <2>1. CASE Skip
    <3>1. Seen(i)' = Seen(i) /\ UNCHANGED <<oldest_slot, oldest_time>>
      BY <1>2, <1>4, <2>1 DEF Skip, scan
    <3> QED  BY <1>2, <1>3, <3>1 DEF OldestOf, args, NoSlot, NoTime, Dist
  <2>2. CASE SecondChance
    <3>1. Current \in Evictable(map0) /\ TrackOldest /\ Seen(i + 1) # {}
      BY <1>2, <2>2 DEF SecondChance
    <3>2. /\ oldest_slot' \in Seen(i + 1)
          /\ oldest_time' = map0[oldest_slot'].last_access
          /\ \A s \in Seen(i + 1) :
               \/ map0[oldest_slot'].last_access < map0[s].last_access
               \/ /\ map0[oldest_slot'].last_access = map0[s].last_access
                  /\ Dist(cursor0, s) <= Dist(cursor0, oldest_slot')
      BY <1>1, <1>2, <3>1, TracksOldest
    <3> QED  BY <1>3, <1>4, <3>1, <3>2 DEF OldestOf, args
  <2> QED  BY <2>1, <2>2
<1> QED
  BY <1>2, <1>3, <1>4, <1>5, <1>6
  DEF IndInv, LoopInv, ScanInv, Answers, ReturnsHit, ReturnsMiss,
      ReturnsVictim, ReturnsNone, Returned, args

(* The slot the scan takes is the victim, and the map is as Evicted says.    *)
LEMMA TakesVictim ==
  ASSUME IndInv, Take
  PROVE  IsVictim(map0, cursor0, Current) /\ block_map' = Evicted(map0, cursor0, Current)
<1>1. ScanFacts
  BY ScanKnows DEF ScanNext
<1>2. /\ Current \in Slots /\ Current \in Unreferenced(map0)
      /\ Dist(cursor0, Current) = i /\ map0 \in Maps
      /\ block_map = ClearedTo(i) /\ block_map[Current] = map0[Current]
      /\ Current \notin Seen(i) /\ i \in 0 .. N /\ cursor0 \in Slots
      /\ \A s \in Seen(i) : Accessed(map0, s)
  BY <1>1 DEF ScanFacts, ScanInv, Take, Unreferenced
<1>3. ASSUME NEW s \in Unreferenced(map0)
      PROVE  Dist(cursor0, Current) <= Dist(cursor0, s)
  <2>1. s \in Evictable(map0) /\ ~Accessed(map0, s) /\ s \notin Seen(i)
    BY <1>2 DEF Unreferenced
  <2>2. Dist(cursor0, s) \in Int
    BY <1>2, <2>1, DistInRange, NAssumption DEF Evictable
  <2> QED  BY <1>2, <2>1, <2>2, NAssumption DEF Seen
<1>4. Passed(map0, cursor0, Current) = Seen(i)
  BY <1>2 DEF Passed, Seen
<1>5. block_map' = [block_map EXCEPT ![Current].flags = @ \ {"VALID"}]
  BY DEF Take, Evict
<1>6. block_map' = Evicted(map0, cursor0, Current)
  BY <1>2, <1>4, <1>5 DEF Evicted, ClearedTo, Maps, Entry
<1> QED  BY <1>2, <1>3, <1>6 DEF IsVictim

(* So is the oldest one, taken when the hand has come round.                 *)
LEMMA TakesOldestVictim ==
  ASSUME IndInv, TakeOldest
  PROVE  /\ oldest_slot \in Slots
         /\ IsVictim(map0, cursor0, oldest_slot)
         /\ block_map' = Evicted(map0, cursor0, oldest_slot)
<1>1. ScanFacts
  BY ScanKnows DEF ScanNext
<1>2. /\ i = N /\ oldest_slot # NoSlot /\ map0 \in Maps
      /\ Seen(i) = Evictable(map0) /\ block_map = ClearedTo(i) /\ OldestOf(i)
      /\ \A s \in Seen(i) : Accessed(map0, s)
  BY <1>1 DEF ScanFacts, ScanInv, TakeOldest
<1>3. /\ Unreferenced(map0) = {} /\ oldest_slot \in Evictable(map0)
      /\ \A s \in Evictable(map0) :
              \/ map0[oldest_slot].last_access < map0[s].last_access
              \/ /\ map0[oldest_slot].last_access = map0[s].last_access
                 /\ Dist(cursor0, s) <= Dist(cursor0, oldest_slot)
  BY <1>2 DEF Unreferenced, OldestOf
<1>4. oldest_slot \in Slots
  BY <1>3 DEF Evictable
<1>5. Passed(map0, cursor0, oldest_slot) = Seen(i)
  BY <1>2, <1>3 DEF Passed
<1>6. block_map' = [block_map EXCEPT ![oldest_slot].flags = @ \ {"VALID", "ACCESSED"}]
  BY DEF TakeOldest, Evict
<1>7. block_map' = Evicted(map0, cursor0, oldest_slot)
  BY <1>2, <1>3, <1>4, <1>5, <1>6 DEF Evicted, ClearedTo, Maps, Entry
<1> QED  BY <1>3, <1>4, <1>7 DEF IsVictim

(* Every iteration of the scan keeps the invariant or answers rightly.       *)
LEMMA ScanStep ==
  ASSUME IndInv, ScanNext
  PROVE  IndInv'
<1>1. ScanFacts
  BY ScanKnows
<1>2. /\ op = "victim" /\ map0 \in Maps /\ cursor0 \in Slots /\ i \in 0 .. N
      /\ cached_block_count = count0 /\ lru_scan_cursor = cursor0
      /\ result = NoSlot /\ block_map = ClearedTo(i) /\ OldestOf(i)
  BY <1>1 DEF ScanFacts, ScanInv
<1>3. CASE Skip \/ SecondChance
  BY <1>3, ScanOn
<1>4. ASSUME NEW v \in Slots, UNCHANGED <<args, i>>, pc' = "return", result' = v,
             cached_block_count' = cached_block_count - 1,
             lru_scan_cursor' = NextCursor(v),
             IsVictim(map0, cursor0, v), block_map' = Evicted(map0, cursor0, v)
      PROVE  IndInv'
  <2>1. v # NoSlot
    BY NAssumption DEF Slots, NoSlot
  <2> QED
    BY <1>2, <1>4, <2>1
    DEF IndInv, LoopInv, ScanInv, Answers, ReturnsHit, ReturnsMiss,
        ReturnsVictim, ReturnsNone, Returned, args
<1>5. CASE Take
  <2>1. Current \in Slots
    BY <1>1, <1>5 DEF ScanFacts, Take
  <2> QED  BY <1>4, <1>5, <2>1, TakesVictim DEF Take, Evict
<1>6. CASE TakeOldest
  BY <1>4, <1>6, TakesOldestVictim DEF TakeOldest, Evict
<1>7. CASE NoVictim
  <2>1. /\ UNCHANGED <<args, scan, block_map, i, result>> /\ pc' = "return"
        /\ Seen(i) = {} /\ Evictable(map0) = {}
    <3>1. i = N /\ oldest_slot = NoSlot /\ Seen(i) = Evictable(map0)
      BY <1>1, <1>7 DEF ScanFacts, NoVictim
    <3>2. NoSlot \notin Seen(i)
      BY NAssumption DEF Seen, Evictable, Slots, NoSlot
    <3>3. UNCHANGED <<args, scan, block_map, i, result>> /\ pc' = "return"
      BY <1>7 DEF NoVictim
    <3> QED  BY <1>2, <3>1, <3>2, <3>3 DEF OldestOf
  <2>2. block_map = map0
    BY <1>2, <2>1 DEF ClearedTo, Maps
  <2> QED
    BY <1>2, <2>1, <2>2
    DEF IndInv, LoopInv, ScanInv, Answers, ReturnsHit, ReturnsMiss,
        ReturnsVictim, ReturnsNone, Returned, args, scan
<1> QED  BY <1>3, <1>5, <1>6, <1>7 DEF ScanNext

-----------------------------------------------------------------------------
(* Theorems *)

LEMMA LoopsInit == ASSUME LoopInit PROVE IndInv
<1>1. map0 \in Maps
  BY MapsAssumption DEF LoopInit, Maps
<1>2. CASE op = "lookup"
  <2>1. ChainTo(i)
    BY DEF LoopInit, ChainTo
  <2> QED
    BY <1>1, <1>2, <2>1, ProbeAssumption
    DEF LoopInit, IndInv, LoopInv, LookupInv, Answers, ReturnsHit, ReturnsMiss,
        ReturnsVictim, ReturnsNone, Returned
<1>3. CASE op = "victim"
  <2>1. cursor0 \in Slots /\ i = 0
    BY <1>3 DEF LoopInit
  <2>2. Seen(i) = {}
    BY <2>1, DistInRange, NAssumption DEF Seen, Evictable
  <2>3. block_map = ClearedTo(i) /\ OldestOf(i)
    BY <1>1, <2>2 DEF LoopInit, ClearedTo, OldestOf, Maps
  <2> QED
    BY <1>1, <1>3, <2>1, <2>2, <2>3, NAssumption
    DEF LoopInit, IndInv, LoopInv, ScanInv, Answers, ReturnsHit, ReturnsMiss,
        ReturnsVictim, ReturnsNone, Returned
<1> QED  BY <1>2, <1>3 DEF LoopInit

LEMMA LoopsNext == ASSUME IndInv, [LoopNext]_lvars PROVE IndInv'
<1>1. CASE UNCHANGED lvars
  BY <1>1
  DEF IndInv, LoopInv, LookupInv, ScanInv, ChainTo, Seen, ClearedTo, OldestOf,
      Answers, ReturnsHit, ReturnsMiss, ReturnsVictim, ReturnsNone, Returned,
      lvars, args
<1> QED  BY <1>1, LookupStep, ScanStep DEF LoopNext

LEMMA LoopsInvariance == LoopSpec => []IndInv
BY LoopsInit, LoopsNext, PTL DEF LoopSpec

(* CacheLookup returns a slot only if IsHit names it, and has touched it.    *)
THEOREM LookupFindsHit == LoopSpec => []ReturnsHit
<1>1. IndInv => ReturnsHit
  BY DEF IndInv, Answers
<1> QED  BY <1>1, LoopsInvariance, PTL

(* It reports a miss only if no slot is a hit, and then changes nothing.     *)
THEOREM LookupMissIsMiss == LoopSpec => []ReturnsMiss
<1>1. IndInv => ReturnsMiss
  BY DEF IndInv, Answers
<1> QED  BY <1>1, LoopsInvariance, PTL

(* LruClockFindVictim takes the victim of IsVictim and leaves the map of     *)
(* Evicted: what ReadCache does in one step.                                 *)
THEOREM ScanTakesVictim == LoopSpec => []ReturnsVictim
<1>1. IndInv => ReturnsVictim
  BY DEF IndInv, Answers
<1> QED  BY <1>1, LoopsInvariance, PTL

(* It gives up only on a map without candidates, and then changes nothing.   *)
THEOREM ScanFailsOnlyIfNone == LoopSpec => []ReturnsNone
<1>1. IndInv => ReturnsNone
  BY DEF IndInv, Answers
<1> QED  BY <1>1, LoopsInvariance, PTL

=============================================================================
