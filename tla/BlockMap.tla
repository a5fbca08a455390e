------------------------------ MODULE BlockMap ------------------------------
(***************************************************************************)
(* The in-memory block map of one cached disk: an array of slots, each     *)
(* naming the source block it caches.  This module holds the operators     *)
(* that run under block_map_lock, as values of the array before and after: *)
(* the probe of CacheLookup, the CLOCK scan of LruClockFindVictim, and the *)
(* flag updates of a population.  Module MapLoops shows that the loops of  *)
(* the code compute IsHit and IsVictim.                                    *)
(*                                                                         *)
(* An aligned byte offset is represented by its block number, that is      *)
(* source_lba \div block_size.  access_count is left out: nothing in the   *)
(* driver reads it.                                                        *)
(***************************************************************************)
EXTENDS Integers, FiniteSets

CONSTANTS
  N,         \* total_cache_blocks, the number of slots
  ProbeMax,  \* CACHE_LINEAR_PROBE_MAX
  Blocks     \* the block numbers of the source disk

ASSUME NAssumption      == N \in Nat \ {0}
ASSUME ProbeAssumption  == ProbeMax \in Nat \ {0}
ASSUME BlocksAssumption == Blocks \subseteq Nat

Slots  == 0 .. (N - 1)
NoSlot == -1            \* CACHE_INVALID_INDEX

Flag  == {"VALID", "POPULATING", "PINNED", "ACCESSED"}
Entry == [source_lba : Blocks, last_access : Nat, flags : SUBSET Flag]

Valid(m, s)      == "VALID" \in m[s].flags
Populating(m, s) == "POPULATING" \in m[s].flags
Pinned(m, s)     == "PINNED" \in m[s].flags
Accessed(m, s)   == "ACCESSED" \in m[s].flags

-----------------------------------------------------------------------------
(* CacheLookup *)

Probe(b, i)    == ((b % N) + i) % N
Probes         == 0 .. (ProbeMax - 1)
Match(m, s, b) == Valid(m, s) /\ ~Populating(m, s) /\ m[s].source_lba = b
Vacant(m, s)   == ~Valid(m, s) /\ ~Populating(m, s)

(* The lookup of b stops at slot s with a hit: no earlier probe was empty   *)
(* (the chain would have ended there) and none was a hit.                   *)
IsHit(m, b, s) ==
  \E i \in Probes :
    /\ s = Probe(b, i)
    /\ Match(m, s, b)
    /\ \A j \in 0 .. (i - 1) :
         ~Vacant(m, Probe(b, j)) /\ ~Match(m, Probe(b, j), b)

IsMiss(m, b) == \A s \in Slots : ~IsHit(m, b, s)

(* The side effect of a hit. *)
Touched(m, s, now) ==
  [m EXCEPT ![s].last_access = now, ![s].flags = @ \cup {"ACCESSED"}]

-----------------------------------------------------------------------------
(* LruClockFindVictim *)

(* The slots the scan does not skip. *)
BugEvictablePinned(m) == {s \in Slots : Valid(m, s) /\ ~Populating(m, s)}
BugEvictableBusy(m)   == {s \in Slots : ~Pinned(m, s)}
BugEvictableEmpty(m)  == {s \in Slots : ~Populating(m, s) /\ ~Pinned(m, s)}
Evictable(m) ==
  {s \in Slots : Valid(m, s) /\ ~Populating(m, s) /\ ~Pinned(m, s)}

(* Those without the reference bit, which the scan takes at once. *)
Unreferenced(m) == {s \in Evictable(m) : ~Accessed(m, s)}

(* How far the clock hand is from s when it stands at cur. *)
Dist(cur, s) == IF s >= cur THEN s - cur ELSE (s + N) - cur

(* The victim: the first unreferenced slot the hand meets; if every         *)
(* candidate is referenced, the one with the oldest last_access, and of     *)
(* those the last one scanned (the comparison in the code is <=).           *)
IsVictim(m, cur, v) ==
  \/ /\ v \in Unreferenced(m)
     /\ \A s \in Unreferenced(m) : Dist(cur, v) <= Dist(cur, s)
  \/ /\ Unreferenced(m) = {}
     /\ v \in Evictable(m)
     /\ \A s \in Evictable(m) :
          \/ m[v].last_access < m[s].last_access
          \/ m[v].last_access = m[s].last_access /\ Dist(cur, s) <= Dist(cur, v)

(* The slots whose reference bit the scan clears on its way to v. *)
Passed(m, cur, v) ==
  IF v \in Unreferenced(m)
    THEN {s \in Evictable(m) : Dist(cur, s) < Dist(cur, v)}
    ELSE Evictable(m)

Evicted(m, cur, v) ==
  [s \in Slots |->
    [m[s] EXCEPT !.flags =
      (IF s \in Passed(m, cur, v) THEN @ \ {"ACCESSED"} ELSE @)
        \ (IF s = v THEN {"VALID"} ELSE {})]]

BugNextCursor(v)     == v + 1
BugNextCursorSkip(v) == (v + 2) % N
NextCursor(v)        == (v + 1) % N

-----------------------------------------------------------------------------
(* The flag updates of CachePopulateWorkItemRoutine *)

Marked(m, s) ==
  [m EXCEPT ![s].flags = (@ \ {"VALID"}) \cup {"POPULATING"}]

Published(m, s, b, now) ==
  [m EXCEPT ![s] = [source_lba |-> b, last_access |-> now,
                    flags |-> {"VALID", "ACCESSED"}]]

BugRestored(m, s) ==
  [m EXCEPT ![s].flags = (@ \ {"POPULATING"}) \cup {"VALID"}]
Restored(m, s) ==
  [m EXCEPT ![s].flags = @ \ {"VALID", "POPULATING"}]

=============================================================================
