-------------------------- MODULE StatisticsProofs --------------------------
(***************************************************************************)
(* The statistics, for every number of recorders.  Balanced is what the    *)
(* counters owe each other at each stage of a reset, Overtaken what a      *)
(* snapshot may still miss at each stage of its reading.                   *)
(***************************************************************************)
EXTENDS Statistics, FiniteSetTheorems, TLAPS

Hits    == counter["cache_hits"]
Misses  == counter["cache_misses"]
Reads   == counter["total_reads"]
R       == Cardinality(Recorders)

(* Recorders that have counted the read and not yet the hit or the miss. *)
Between == {r \in Recorders : recorder[r] \in {<<"cache_hits">>, <<"cache_misses">>}}

Todo   == {<<>>, Hit, Miss, <<"cache_hits">>, <<"cache_misses">>}
Stages == {<<>>, <<"cache_misses">>, <<"cache_hits", "cache_misses">>, StatsOrder}

StatsTypeOK ==
  /\ counter \in [Counters -> Nat]
  /\ output \in [Counters -> Nat]
  /\ recorder \in [Recorders -> Todo]
  /\ clearing \in Stages
  /\ reading \in Stages
  /\ clears \in Nat
  /\ clears = 0 => clearing = <<>>

(* While total_reads is cleared and the hits are not, nothing is owed. *)
Balanced ==
  /\ clearing = <<"cache_misses">> => Hits + Cardinality(Between) <= Reads + R
  /\ clearing \in {<<>>, StatsOrder} =>
       Hits + Misses + Cardinality(Between) <= Reads + R
  /\ clears = 0 => Reads = Hits + Misses + Cardinality(Between)

Overtaken ==
  clears = 0 =>
    /\ reading = <<"cache_hits", "cache_misses">> =>
         output["total_reads"] <= Hits + Misses + R
    /\ reading = <<"cache_misses">> =>
         output["total_reads"] <= output["cache_hits"] + Misses + R
    /\ reading = <<>> =>
         output["total_reads"] <= output["cache_hits"] + output["cache_misses"] + R

StatsInv == StatsTypeOK /\ Balanced /\ Overtaken

-----------------------------------------------------------------------------
(* The counters that are left, one by one. *)
LEMMA Lists ==
  /\ Hit # <<>> /\ Head(Hit) = "total_reads" /\ Tail(Hit) = <<"cache_hits">>
  /\ Miss # <<>> /\ Head(Miss) = "total_reads" /\ Tail(Miss) = <<"cache_misses">>
  /\ <<"cache_hits">> # <<>> /\ Head(<<"cache_hits">>) = "cache_hits"
  /\ Tail(<<"cache_hits">>) = <<>>
  /\ <<"cache_misses">> # <<>> /\ Head(<<"cache_misses">>) = "cache_misses"
  /\ Tail(<<"cache_misses">>) = <<>>
  /\ Head(<<"cache_hits", "cache_misses">>) = "cache_hits"
  /\ Tail(<<"cache_hits", "cache_misses">>) = <<"cache_misses">>
  /\ Head(StatsOrder) = "total_reads"
  /\ Tail(StatsOrder) = <<"cache_hits", "cache_misses">>
BY DEF Hit, Miss, StatsOrder

(* Lists at different stages differ. *)
LEMMA ListsDiffer ==
  /\ Hit # <<"cache_hits">> /\ Hit # <<"cache_misses">>
  /\ Miss # <<"cache_hits">> /\ Miss # <<"cache_misses">>
  /\ <<"cache_hits">> # <<>> /\ <<"cache_misses">> # <<>>
  /\ Hit # <<>> /\ Miss # <<>> /\ StatsOrder # <<>>
  /\ <<"cache_hits", "cache_misses">> # <<>>
  /\ <<"cache_hits", "cache_misses">> # <<"cache_misses">>
  /\ <<"cache_hits", "cache_misses">> # StatsOrder
  /\ StatsOrder # <<"cache_misses">>
BY DEF Hit, Miss, StatsOrder

(* The sets of recorders that are counted are finite. *)
LEMMA BetweenSets ==
  /\ Cardinality(Between) \in Nat /\ R \in Nat /\ Cardinality(Between) <= R
  /\ \A r : r \notin Between => Cardinality(Between \cup {r}) = Cardinality(Between) + 1
  /\ \A r : r \in Between => Cardinality(Between \ {r}) = Cardinality(Between) - 1
<1>1. Between \subseteq Recorders
  BY DEF Between
<1>2. IsFiniteSet(Between) /\ Cardinality(Between) <= Cardinality(Recorders)
  BY <1>1, RecordersAssumption, FS_Subset
<1>3. Cardinality(Between) \in Nat /\ Cardinality(Recorders) \in Nat
  BY <1>2, RecordersAssumption, FS_CardinalityType
<1>4. \A r : r \notin Between => Cardinality(Between \cup {r}) = Cardinality(Between) + 1
  BY <1>2, FS_AddElement
<1>5. \A r : r \in Between => Cardinality(Between \ {r}) = Cardinality(Between) - 1
  BY <1>2, FS_RemoveElement
<1> QED
  BY <1>2, <1>3, <1>4, <1>5 DEF R

(* A step of a recorder counts a read, or the part it owes. *)
LEMMA StepOfRecorder ==
  ASSUME StatsTypeOK, NEW r \in Recorders, RecordStep(r)
  PROVE  /\ counter' \in [Counters -> Nat] /\ recorder' \in [Recorders -> Todo]
         /\ \/ /\ Reads' = Reads + 1 /\ Hits' = Hits /\ Misses' = Misses
               /\ r \notin Between /\ Between' = Between \cup {r}
            \/ /\ Reads' = Reads /\ Hits' = Hits + 1 /\ Misses' = Misses
               /\ r \in Between /\ Between' = Between \ {r}
            \/ /\ Reads' = Reads /\ Hits' = Hits /\ Misses' = Misses + 1
               /\ r \in Between /\ Between' = Between \ {r}
<1> DEFINE todo == recorder[r]
           k    == Head(todo)
           next == Tail(todo)
<1>0. /\ counter \in [Counters -> Nat] /\ recorder \in [Recorders -> Todo]
      /\ todo \in Todo /\ todo # <<>>
  BY DEF StatsTypeOK, RecordStep
<1>1. /\ counter' = [counter EXCEPT ![k] = @ + 1]
      /\ recorder' = [recorder EXCEPT ![r] = next]
  BY DEF RecordStep
<1>2. CASE todo \in {Hit, Miss}
  <2>1. /\ k = "total_reads" /\ next \in {<<"cache_hits">>, <<"cache_misses">>}
        /\ todo \notin {<<"cache_hits">>, <<"cache_misses">>}
    BY <1>2, Lists, ListsDiffer
  <2>2. next \in Todo
    BY <2>1 DEF Todo
  <2>3. r \notin Between /\ Between' = Between \cup {r}
    BY <1>0, <1>1, <2>1 DEF Between
  <2>4. /\ counter' \in [Counters -> Nat]
        /\ Reads' = Reads + 1 /\ Hits' = Hits /\ Misses' = Misses
    BY <1>0, <1>1, <2>1 DEF Counters, Reads, Hits, Misses
  <2> QED
    BY <1>0, <1>1, <2>2, <2>3, <2>4
<1>3. CASE todo = <<"cache_hits">>
  <2>1. k = "cache_hits" /\ next = <<>>
    BY <1>3, Lists
  <2>2. next \in Todo /\ next \notin {<<"cache_hits">>, <<"cache_misses">>}
    BY <2>1, ListsDiffer DEF Todo
  <2>3. r \in Between /\ Between' = Between \ {r}
    BY <1>0, <1>1, <1>3, <2>2 DEF Between
  <2>4. /\ counter' \in [Counters -> Nat]
        /\ Reads' = Reads /\ Hits' = Hits + 1 /\ Misses' = Misses
    BY <1>0, <1>1, <2>1 DEF Counters, Reads, Hits, Misses
  <2> QED
    BY <1>0, <1>1, <2>2, <2>3, <2>4
<1>4. CASE todo = <<"cache_misses">>
  <2>1. k = "cache_misses" /\ next = <<>>
    BY <1>4, Lists
  <2>2. next \in Todo /\ next \notin {<<"cache_hits">>, <<"cache_misses">>}
    BY <2>1, ListsDiffer DEF Todo
  <2>3. r \in Between /\ Between' = Between \ {r}
    BY <1>0, <1>1, <1>4, <2>2 DEF Between
  <2>4. /\ counter' \in [Counters -> Nat]
        /\ Reads' = Reads /\ Hits' = Hits /\ Misses' = Misses + 1
    BY <1>0, <1>1, <2>1 DEF Counters, Reads, Hits, Misses
  <2> QED
    BY <1>0, <1>1, <2>2, <2>3, <2>4
<1> QED
  BY <1>0, <1>2, <1>3, <1>4 DEF Todo

(* The beginning of a hit or a miss counts nothing yet. *)
LEMMA StartOfRecord ==
  ASSUME StatsTypeOK, NEW r \in Recorders, NEW what \in {Hit, Miss}, Record(r, what)
  PROVE  recorder' \in [Recorders -> Todo] /\ Between' = Between
<1>1. /\ recorder \in [Recorders -> Todo] /\ recorder[r] = <<>>
      /\ recorder' = [recorder EXCEPT ![r] = what]
  BY DEF StatsTypeOK, Record
<1>2. what \in Todo
  BY DEF Todo
<1>3. what \notin {<<"cache_hits">>, <<"cache_misses">>}
      /\ <<>> \notin {<<"cache_hits">>, <<"cache_misses">>}
  BY ListsDiffer
<1> QED
  BY <1>1, <1>2, <1>3 DEF Between

-----------------------------------------------------------------------------
(* Before the first read all counters are zero and the stages begin. *)
LEMMA StatsInit == SInit => StatsInv
<1> SUFFICES ASSUME SInit PROVE StatsInv
  OBVIOUS
<1>1. Between = {}
  BY ListsDiffer DEF SInit, Between
<1>2. Cardinality(Between) = 0
  BY <1>1, FS_EmptySet
<1>3. StatsTypeOK
  BY DEF SInit, StatsTypeOK, NoStats, Counters, Todo, Stages
<1>4. Reads = 0 /\ Hits = 0 /\ Misses = 0 /\ clearing = <<>> /\ reading = <<>>
      /\ \A k \in Counters : output[k] = 0
  BY DEF SInit, NoStats, Reads, Hits, Misses, Counters
<1>5. Balanced
  BY <1>2, <1>4, BetweenSets, ListsDiffer DEF Balanced
<1>6. Overtaken
  BY <1>4, BetweenSets, ListsDiffer DEF Overtaken, Counters
<1> QED
  BY <1>3, <1>5, <1>6 DEF StatsInv

(* What the recorders do keeps the balance and what a snapshot has. *)
LEMMA RecordKeeps ==
  ASSUME StatsInv, NEW r \in Recorders,
         StatsRecordHit(r) \/ StatsRecordMiss(r) \/ RecordStep(r)
  PROVE  StatsInv'
<1>0. StatsTypeOK /\ Reads \in Nat /\ Hits \in Nat /\ Misses \in Nat
      /\ output["total_reads"] \in Nat /\ output["cache_hits"] \in Nat
      /\ output["cache_misses"] \in Nat
  BY DEF StatsInv, StatsTypeOK, Reads, Hits, Misses, Counters
<1>1. UNCHANGED <<clearing, reading, output, clears>>
  BY DEF StatsRecordHit, StatsRecordMiss, Record, RecordStep
<1>2. ASSUME RecordStep(r) PROVE StatsInv'
  <2>1. StatsTypeOK'
    BY <1>0, <1>1, <1>2, StepOfRecorder DEF StatsTypeOK
  <2>2. \/ /\ Reads' = Reads + 1 /\ Hits' = Hits /\ Misses' = Misses
           /\ Cardinality(Between') = Cardinality(Between) + 1
        \/ /\ Reads' = Reads /\ Hits' = Hits + 1 /\ Misses' = Misses
           /\ Cardinality(Between') = Cardinality(Between) - 1
        \/ /\ Reads' = Reads /\ Hits' = Hits /\ Misses' = Misses + 1
           /\ Cardinality(Between') = Cardinality(Between) - 1
    BY <1>0, <1>2, StepOfRecorder, BetweenSets
  <2>3. Balanced'
    <3>1. Cardinality(Between)' = Cardinality(Between') /\ R' = R
      BY DEF R
    <3>2. Cardinality(Between) \in Nat /\ R \in Nat
      BY BetweenSets
    <3> DEFINE b == Cardinality(Between)
    <3>3. \/ Reads' = Reads + 1 /\ Hits' = Hits /\ Misses' = Misses /\ b' = b + 1
          \/ Reads' = Reads /\ Hits' = Hits + 1 /\ Misses' = Misses /\ b' = b - 1
          \/ Reads' = Reads /\ Hits' = Hits /\ Misses' = Misses + 1 /\ b' = b - 1
      BY <2>2, <3>1
    <3>4. b \in Nat
      BY <3>2
    <3>5. /\ clearing = <<"cache_misses">> => Hits + b <= Reads + R
          /\ clearing \in {<<>>, StatsOrder} => Hits + Misses + b <= Reads + R
          /\ clears = 0 => Reads = Hits + Misses + b
      BY DEF StatsInv, Balanced
    <3> HIDE DEF b
    <3>6. /\ Hits + b <= Reads + R => Hits' + b' <= Reads' + R'
          /\ Hits + Misses + b <= Reads + R => Hits' + Misses' + b' <= Reads' + R'
          /\ Reads = Hits + Misses + b => Reads' = Hits' + Misses' + b'
      BY <1>0, <3>1, <3>2, <3>3, <3>4
    <3>7. /\ clearing' = <<"cache_misses">> => Hits' + b' <= Reads' + R'
          /\ clearing' \in {<<>>, StatsOrder} => Hits' + Misses' + b' <= Reads' + R'
          /\ clears' = 0 => Reads' = Hits' + Misses' + b'
      BY <1>1, <3>5, <3>6
    <3> QED
      BY <3>7 DEF Balanced, b
  <2>4. Overtaken'
    <3>1. R' = R /\ R \in Nat
      BY BetweenSets DEF R
    <3>2. Hits' >= Hits /\ Misses' >= Misses /\ Hits' \in Nat /\ Misses' \in Nat
      BY <1>0, <2>2
    <3> QED
      BY <1>0, <1>1, <3>1, <3>2 DEF StatsInv, Overtaken
  <2> QED
    BY <2>1, <2>3, <2>4 DEF StatsInv
<1>3. ASSUME NEW what \in {Hit, Miss}, Record(r, what) PROVE StatsInv'
  <2>1. recorder' \in [Recorders -> Todo] /\ Between' = Between
    BY <1>0, <1>3, StartOfRecord
  <2>2. counter' = counter
    BY <1>3 DEF Record
  <2>3. StatsTypeOK'
    BY <1>0, <1>1, <2>1, <2>2 DEF StatsTypeOK
  <2>4. Balanced' /\ Overtaken'
    BY <1>1, <2>1, <2>2 DEF StatsInv, Balanced, Overtaken, Reads, Hits, Misses, R
  <2> QED
    BY <2>3, <2>4 DEF StatsInv
<1> QED
  BY <1>2, <1>3 DEF StatsRecordHit, StatsRecordMiss

(* A reset begins with total_reads; each of its steps pays for the next. *)
LEMMA ResetKeeps ==
  ASSUME StatsInv, ResetStats \/ ResetStep
  PROVE  StatsInv'
<1>0. StatsTypeOK /\ counter \in [Counters -> Nat] /\ clearing \in Stages
      /\ Reads \in Nat /\ Hits \in Nat /\ Misses \in Nat /\ clears \in Nat
  BY DEF StatsInv, StatsTypeOK, Reads, Hits, Misses, Counters
<1>1. Between' = Between
  BY DEF ResetStats, ResetStep, Between
<1>2. UNCHANGED <<recorder, reading, output>>
  BY DEF ResetStats, ResetStep
<1>3. ASSUME ResetStats PROVE StatsInv'
  <2>1. clearing' = StatsOrder /\ clearing = <<>> /\ counter' = counter /\ clears' = clears + 1
    BY <1>3 DEF ResetStats
  <2>2. clears' # 0
    BY <1>0, <2>1
  <2>3. StatsTypeOK'
    BY <1>0, <1>2, <2>1, <2>2 DEF StatsTypeOK, Stages
  <2>4. Balanced'
    BY <1>1, <2>1, <2>2, ListsDiffer DEF StatsInv, Balanced, Reads, Hits, Misses, R
  <2> QED
    BY <2>2, <2>3, <2>4 DEF StatsInv, Overtaken
<1>4. ASSUME ResetStep PROVE StatsInv'
  <2>1. /\ clearing # <<>> /\ clears # 0 /\ clears' = clears
        /\ counter' = [counter EXCEPT ![Head(clearing)] = 0]
        /\ clearing' = Tail(clearing)
    BY <1>4, <1>0 DEF ResetStep, StatsTypeOK
  <2>2. CASE clearing = StatsOrder
    <3>1. clearing' = <<"cache_hits", "cache_misses">>
          /\ counter' = [counter EXCEPT !["total_reads"] = 0]
      BY <2>1, <2>2, Lists
    <3>2. StatsTypeOK'
      <4>1. clearing' \in Stages
        BY <3>1 DEF Stages
      <4>2. counter' \in [Counters -> Nat]
        BY <1>0, <3>1
      <4> QED
        BY <1>0, <1>2, <2>1, <4>1, <4>2 DEF StatsTypeOK
    <3>3. Balanced'
      BY <2>1, <3>1, ListsDiffer DEF Balanced
    <3> QED
      BY <2>1, <3>2, <3>3 DEF StatsInv, Overtaken
  <2>3. CASE clearing = <<"cache_hits", "cache_misses">>
    <3>1. clearing' = <<"cache_misses">> /\ counter' = [counter EXCEPT !["cache_hits"] = 0]
      BY <2>1, <2>3, Lists
    <3>2. StatsTypeOK'
      <4>1. clearing' \in Stages
        BY <3>1 DEF Stages
      <4>2. counter' \in [Counters -> Nat]
        BY <1>0, <3>1
      <4> QED
        BY <1>0, <1>2, <2>1, <4>1, <4>2 DEF StatsTypeOK
    <3>3. Hits' = 0 /\ Reads' = Reads
      BY <1>0, <3>1 DEF Hits, Reads, Counters
    <3>4. Balanced'
      <4>1. Cardinality(Between)' = Cardinality(Between) /\ R' = R
        BY <1>1 DEF R
      <4>2. Cardinality(Between) \in Nat /\ R \in Nat /\ Cardinality(Between) <= R
        BY BetweenSets
      <4>3. Hits' + Cardinality(Between)' <= Reads' + R'
        BY <1>0, <3>3, <4>1, <4>2
      <4>4. clearing' \notin {<<>>, StatsOrder} /\ clears' # 0
        BY <2>1, <3>1, ListsDiffer
      <4> QED
        BY <4>3, <4>4 DEF Balanced
    <3> QED
      BY <2>1, <3>2, <3>4 DEF StatsInv, Overtaken
  <2>4. CASE clearing = <<"cache_misses">>
    <3>1. clearing' = <<>> /\ counter' = [counter EXCEPT !["cache_misses"] = 0]
      BY <2>1, <2>4, Lists
    <3>2. StatsTypeOK'
      <4>1. clearing' \in Stages
        BY <3>1 DEF Stages
      <4>2. counter' \in [Counters -> Nat]
        BY <1>0, <3>1
      <4> QED
        BY <1>0, <1>2, <2>1, <4>1, <4>2 DEF StatsTypeOK
    <3>3. Misses' = 0 /\ Reads' = Reads /\ Hits' = Hits
      BY <1>0, <3>1 DEF Hits, Misses, Reads, Counters
    <3>4. Hits + Cardinality(Between) <= Reads + R
      BY <2>4 DEF StatsInv, Balanced
    <3>5. Balanced'
      <4>1. Cardinality(Between)' = Cardinality(Between) /\ R' = R
        BY <1>1 DEF R
      <4>2. Cardinality(Between) \in Nat /\ R \in Nat
        BY BetweenSets
      <4>3. Hits' + Misses' + Cardinality(Between)' <= Reads' + R'
        BY <1>0, <3>3, <3>4, <4>1, <4>2
      <4>4. clearing' # <<"cache_misses">> /\ clears' # 0
        BY <2>1, <3>1, ListsDiffer
      <4> QED
        BY <4>3, <4>4 DEF Balanced
    <3> QED
      BY <2>1, <3>2, <3>5 DEF StatsInv, Overtaken
  <2> QED
    BY <1>0, <2>1, <2>2, <2>3, <2>4 DEF Stages
<1> QED
  BY <1>3, <1>4

(* As long as nothing is reset, what a snapshot has read is overtaken by     *)
(* what it has still to read.                                                *)
LEMMA GetKeeps ==
  ASSUME StatsInv, GetStats \/ GetStep
  PROVE  StatsInv'
<1>0. StatsTypeOK /\ counter \in [Counters -> Nat] /\ output \in [Counters -> Nat]
      /\ reading \in Stages /\ Reads \in Nat /\ Hits \in Nat /\ Misses \in Nat
  BY DEF StatsInv, StatsTypeOK, Reads, Hits, Misses, Counters
<1>1. UNCHANGED <<counter, recorder, clearing, clears>>
  BY DEF GetStats, GetStep
<1>2. Between' = Between /\ Hits' = Hits /\ Misses' = Misses /\ Reads' = Reads
  BY <1>1 DEF Between, Hits, Misses, Reads
<1>3. Balanced'
  BY <1>1, <1>2 DEF StatsInv, Balanced, R
<1>4. ASSUME GetStats PROVE StatsInv'
  <2>1. reading' = StatsOrder /\ output' = NoStats
    BY <1>4 DEF GetStats
  <2>2. StatsTypeOK'
    BY <1>0, <1>1, <2>1 DEF StatsTypeOK, Stages, NoStats
  <2>3. Overtaken'
    BY <2>1, ListsDiffer DEF Overtaken
  <2> QED
    BY <1>3, <2>2, <2>3 DEF StatsInv
<1>5. ASSUME GetStep PROVE StatsInv'
  <2>1. /\ reading # <<>> /\ reading' = Tail(reading)
        /\ output' = [output EXCEPT ![Head(reading)] = counter[Head(reading)]]
    BY <1>5 DEF GetStep
  <2>2. CASE reading = StatsOrder
    <3>1. /\ reading' = <<"cache_hits", "cache_misses">>
          /\ output' = [output EXCEPT !["total_reads"] = Reads]
      BY <2>1, <2>2, Lists DEF Reads
    <3>2. StatsTypeOK'
      BY <1>0, <1>1, <3>1 DEF StatsTypeOK, Stages
    <3>3. output'["total_reads"] = Reads
      BY <1>0, <3>1 DEF Counters
    <3>4. clears = 0 => Reads <= Hits + Misses + R
      BY <1>0, BetweenSets DEF StatsInv, Balanced
    <3>5. Overtaken'
      BY <1>0, <1>1, <1>2, <3>1, <3>3, <3>4, ListsDiffer DEF Overtaken, R
    <3> QED
      BY <1>3, <3>2, <3>5 DEF StatsInv
  <2>3. CASE reading = <<"cache_hits", "cache_misses">>
    <3>1. reading' = <<"cache_misses">> /\ output' = [output EXCEPT !["cache_hits"] = Hits]
      BY <2>1, <2>3, Lists DEF Hits
    <3>2. StatsTypeOK'
      BY <1>0, <1>1, <3>1 DEF StatsTypeOK, Stages
    <3>3. output'["total_reads"] = output["total_reads"] /\ output'["cache_hits"] = Hits
      BY <1>0, <3>1 DEF Counters
    <3>4. clears = 0 => output["total_reads"] <= Hits + Misses + R
      BY <2>3 DEF StatsInv, Overtaken
    <3>5. Overtaken'
      BY <1>0, <1>1, <1>2, <3>1, <3>3, <3>4, ListsDiffer DEF Overtaken, R
    <3> QED
      BY <1>3, <3>2, <3>5 DEF StatsInv
  <2>4. CASE reading = <<"cache_misses">>
    <3>1. reading' = <<>> /\ output' = [output EXCEPT !["cache_misses"] = Misses]
      BY <2>1, <2>4, Lists DEF Misses
    <3>2. StatsTypeOK'
      BY <1>0, <1>1, <3>1 DEF StatsTypeOK, Stages
    <3>3. /\ output'["total_reads"] = output["total_reads"]
          /\ output'["cache_hits"] = output["cache_hits"]
          /\ output'["cache_misses"] = Misses
      BY <1>0, <3>1 DEF Counters
    <3>4. clears = 0 => output["total_reads"] <= output["cache_hits"] + Misses + R
      BY <2>4 DEF StatsInv, Overtaken
    <3>5. Overtaken'
      BY <1>0, <1>1, <1>2, <3>1, <3>3, <3>4, ListsDiffer DEF Overtaken, R
    <3> QED
      BY <1>3, <3>2, <3>5 DEF StatsInv
  <2> QED
    BY <1>0, <2>1, <2>2, <2>3, <2>4 DEF Stages
<1> QED
  BY <1>4, <1>5

(* The stages of resets and snapshots are an inductive invariant. *)
THEOREM StatsInvariance == SSpec => []StatsInv
<1>1. StatsInv /\ [SNext]_svars => StatsInv'
  <2> SUFFICES ASSUME StatsInv, [SNext]_svars PROVE StatsInv'
    OBVIOUS
  <2>1. CASE UNCHANGED svars
    BY <2>1 DEF svars, StatsInv, StatsTypeOK, Balanced, Overtaken, Reads, Hits, Misses,
      Between, R
  <2> QED
    BY <2>1, RecordKeeps, ResetKeeps, GetKeeps DEF SNext
<1> QED
  BY <1>1, StatsInit, PTL DEF SSpec

(* A reset that runs beside any number of reads leaves hits and misses in    *)
(* excess by no more than the recorders.                                     *)
THEOREM ResetBounded == SSpec => []ResetKeepsTotal
<1>1. StatsInv => ResetKeepsTotal
  <2> SUFFICES ASSUME StatsInv, clearing = <<>> PROVE Hits + Misses <= Reads + R
    BY DEF ResetKeepsTotal, Hits, Misses, Reads, R
  <2>1. Hits + Misses + Cardinality(Between) <= Reads + R
    BY DEF StatsInv, Balanced
  <2>2. Reads \in Nat /\ Hits \in Nat /\ Misses \in Nat
    BY DEF StatsInv, StatsTypeOK, Reads, Hits, Misses, Counters
  <2> QED
    BY <2>1, <2>2, BetweenSets
<1> QED
  BY <1>1, StatsInvariance, PTL

(* A snapshot shows no more reads than hits and misses, but for those of the *)
(* recorders.                                                                *)
THEOREM SnapshotsCover == SSpec => []SnapshotCoversReads
<1>1. StatsInv => SnapshotCoversReads
  BY DEF StatsInv, Overtaken, SnapshotCoversReads, R
<1> QED
  BY <1>1, StatsInvariance, PTL
=============================================================================
