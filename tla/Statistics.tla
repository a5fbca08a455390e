----------------------------- MODULE Statistics -----------------------------
(***************************************************************************)
(* The statistics of a disk: interlocked counters that StatsRecordHit and  *)
(* StatsRecordMiss add to one after the other, that                        *)
(* CacheFilterIoctlGetStats reads one after the other, and that            *)
(* CacheFilterIoctlResetStats sets to zero one after the other, without a  *)
(* lock.  The two counters of the rate limit are in PopulateThrottle.  The *)
(* bytes, evictions and counts of blocks are left out: nothing is computed *)
(* from them.                                                              *)
(***************************************************************************)
EXTENDS Integers, Sequences, FiniteSets

CONSTANTS
  Recorders,       \* reads that can record at the same time
  MaxRecords,      \* bound: hits and misses in all
  MaxStatsResets   \* bound: resets in all

ASSUME RecordersAssumption == IsFiniteSet(Recorders)

VARIABLES
  counter,    \* the counters of the CACHE_DISK_CONTEXT
  recorder,   \* per read: the counters it has still to add to
  clearing,   \* CacheFilterIoctlResetStats: the counters still to be cleared
  reading,    \* CacheFilterIoctlGetStats: the counters still to be read
  output,     \* CACHE_STATS_OUTPUT
  records,    \* hits and misses so far
  clears      \* resets so far

svars == <<counter, recorder, clearing, reading, output, records, clears>>

Hit  == <<"total_reads", "cache_hits">>
Miss == <<"total_reads", "cache_misses">>

(* The order in which they are read, and in which they are reset. *)
BugStatsOrder == <<"cache_hits", "cache_misses", "total_reads">>
StatsOrder    == <<"total_reads", "cache_hits", "cache_misses">>

Counters == {"total_reads", "cache_hits", "cache_misses"}

NoStats == [k \in Counters |-> 0]

SInit ==
  /\ counter = NoStats
  /\ recorder = [r \in Recorders |-> <<>>]
  /\ clearing = <<>>
  /\ reading = <<>>
  /\ output = NoStats
  /\ records = 0
  /\ clears = 0

-----------------------------------------------------------------------------
Record(r, what) ==
  /\ recorder[r] = <<>>
  /\ records < MaxRecords
  /\ records' = records + 1
  /\ recorder' = [recorder EXCEPT ![r] = what]
  /\ UNCHANGED <<counter, clearing, reading, output, clears>>

StatsRecordHit(r)  == Record(r, Hit)
StatsRecordMiss(r) == Record(r, Miss)

RecordStep(r) ==
  /\ recorder[r] # <<>>
  /\ counter' = [counter EXCEPT ![Head(recorder[r])] = @ + 1]
  /\ recorder' = [recorder EXCEPT ![r] = Tail(@)]
  /\ UNCHANGED <<clearing, reading, output, records, clears>>

(* One reset at a time; PopulateThrottle has several at once. *)
ResetStats ==
  /\ clearing = <<>>
  /\ clears < MaxStatsResets
  /\ clears' = clears + 1
  /\ clearing' = StatsOrder
  /\ UNCHANGED <<counter, recorder, reading, output, records>>

ResetStep ==
  /\ clearing # <<>>
  /\ counter' = [counter EXCEPT ![Head(clearing)] = 0]
  /\ clearing' = Tail(clearing)
  /\ UNCHANGED <<recorder, reading, output, records, clears>>

GetStats ==
  /\ reading = <<>>
  /\ reading' = StatsOrder
  /\ output' = NoStats
  /\ UNCHANGED <<counter, recorder, clearing, records, clears>>

GetStep ==
  /\ reading # <<>>
  /\ output' = [output EXCEPT ![Head(reading)] = counter[Head(reading)]]
  /\ reading' = Tail(reading)
  /\ UNCHANGED <<counter, recorder, clearing, records, clears>>

SNext ==
  \/ \E r \in Recorders : StatsRecordHit(r) \/ StatsRecordMiss(r) \/ RecordStep(r)
  \/ ResetStats \/ ResetStep
  \/ GetStats   \/ GetStep

SSpec == SInit /\ [][SNext]_svars

-----------------------------------------------------------------------------
(* Properties *)

(* A reset clears total_reads before its two parts, and reads go on beside   *)
(* it: once it has ended, hits and misses exceed the reads by no more than   *)
(* the recorders that can be between two counters, however many reads were   *)
(* recorded while it ran, and so does a hit rate exceed 100 percent.         *)
ResetKeepsTotal ==
  clearing = <<>> =>
    counter["cache_hits"] + counter["cache_misses"]
      <= counter["total_reads"] + Cardinality(Recorders)

(* A snapshot is not of one moment, but as total_reads is read first it      *)
(* never shows more reads than hits and misses, but for the reads that are   *)
(* between two counters.                                                     *)
SnapshotCoversReads ==
  reading = <<>> /\ clears = 0 =>
    output["total_reads"]
      <= output["cache_hits"] + output["cache_misses"] + Cardinality(Recorders)

=============================================================================
