-------------------------- MODULE RangeLoopProofs --------------------------
(***************************************************************************)
(* The layout of the partition and the three loops over the blocks of a    *)
(* request, for every block size, every disk and partition, every request, *)
(* and any sequence of attaches, populations and flushes.                  *)
(***************************************************************************)
EXTENDS RangeLoop, TLAPS

-----------------------------------------------------------------------------
(* Quotients *)

LEMMA TimesMonotonic ==
  ASSUME NEW a \in Int, NEW b \in Int, a <= b, NEW n \in Nat
  PROVE  a * n \in Int /\ b * n \in Int /\ a * n <= b * n
OBVIOUS

LEMMA TimesNext ==
  ASSUME NEW a \in Int, NEW n \in Int
  PROVE  (a + 1) * n = a * n + n /\ a * n \in Int
OBVIOUS

(* Division with a remainder.                                                *)
LEMMA Quotient ==
  ASSUME NEW a \in Int, NEW n \in Nat \ {0}
  PROVE  /\ a \div n \in Int
         /\ (a \div n) * n <= a /\ a < (a \div n) * n + n
         /\ a % n = a - (a \div n) * n
         /\ a \in Nat => a \div n \in Nat
OBVIOUS

LEMMA QuotientNat ==
  ASSUME NEW a \in Nat, NEW n \in Nat \ {0}
  PROVE  a \div n \in Nat
OBVIOUS

(* The quotient is the only multiple of n that close.                        *)
LEMMA QuotientIs ==
  ASSUME NEW a \in Int, NEW n \in Nat \ {0}, NEW q \in Int,
         q * n <= a, a < q * n + n
  PROVE  a \div n = q
<1> DEFINE p == a \div n
<1>1. p \in Int /\ p * n <= a /\ a < p * n + n
  BY Quotient
<1>2. CASE p < q
  BY <1>1, <1>2, TimesMonotonic, TimesNext
<1>3. CASE q < p
  BY <1>1, <1>3, TimesMonotonic, TimesNext
<1> QED  BY <1>1, <1>2, <1>3

LEMMA Remainder ==
  ASSUME NEW a \in Nat, NEW n \in Nat \ {0}
  PROVE  a % n \in Nat /\ a % n <= a /\ (a < n => a % n = a)
<1>1. /\ a \div n \in Nat /\ (a \div n) * n <= a
      /\ a % n = a - (a \div n) * n
  OBVIOUS
<1>2. (a \div n) * n \in Nat
  BY <1>1, TimesMonotonic
<1>3. ASSUME a < n PROVE a \div n = 0
  BY <1>3, QuotientIs
<1> QED  BY <1>1, <1>2, <1>3

(* The next block has the next number.                                       *)
LEMMA QuotientNext ==
  ASSUME NEW a \in Int, NEW n \in Nat \ {0}
  PROVE  (a + n) \div n = a \div n + 1
<1> DEFINE p == a \div n
<1>1. p \in Int /\ p * n <= a /\ a < p * n + n
  BY Quotient
<1>2. (p + 1) * n = p * n + n
  BY <1>1, TimesNext
<1> HIDE DEF p
<1>3. a + n \in Int /\ p + 1 \in Int /\ (p + 1) * n <= a + n /\ a + n < (p + 1) * n + n
  BY <1>1, <1>2
<1>4. (a + n) \div n = p + 1
  BY <1>3, QuotientIs
<1> QED  BY <1>4 DEF p

LEMMA QuotientMonotonic ==
  ASSUME NEW a \in Int, NEW b \in Int, a <= b, NEW n \in Nat \ {0}
  PROVE  a \div n <= b \div n
<1> DEFINE p == a \div n
           q == b \div n
<1>1. p \in Int /\ p * n <= a /\ q \in Int /\ b < q * n + n
  BY Quotient
<1>2. CASE q < p
  BY <1>1, <1>2, TimesMonotonic, TimesNext
<1> QED  BY <1>1, <1>2

(* A step of at most, or at least, a block.                                  *)
LEMMA QuotientStep ==
  ASSUME NEW a \in Int, NEW b \in Int, NEW n \in Nat \ {0}
  PROVE  /\ b <= a + n => b \div n <= a \div n + 1
         /\ a + n <= b => a \div n + 1 <= b \div n
<1> DEFINE c == a + n
<1>1. c \in Int /\ c \div n = a \div n + 1
  <2>1. c \in Int
    OBVIOUS
  <2>2. (a + n) \div n = a \div n + 1
    BY QuotientNext
  <2> QED  BY <2>1, <2>2
<1> HIDE DEF c
<1>2. /\ b <= c => b \div n <= c \div n
      /\ c <= b => c \div n <= b \div n
  BY <1>1, QuotientMonotonic
<1> QED  BY <1>1, <1>2 DEF c

(* A multiple of n ends the block before it.                                 *)
LEMMA BlockBefore ==
  ASSUME NEW a \in Int, NEW n \in Nat \ {0}, (a \div n) * n = a
  PROVE  (a - 1) \div n = a \div n - 1
<1>1. PICK q \in Int : q = a \div n /\ q * n = a
  BY Quotient
<1>2. PICK p \in Int : p = q - 1
  OBVIOUS
<1>3. q * n = p * n + n /\ p * n \in Int
  BY <1>2, TimesNext
<1>4. PICK e \in Int : e = a - 1
  OBVIOUS
<1>5. p * n <= e /\ e < p * n + n
  BY <1>1, <1>3, <1>4
<1>6. e \div n = p
  BY <1>5, QuotientIs
<1> QED  BY <1>1, <1>2, <1>4, <1>6

-----------------------------------------------------------------------------
(* The layout *)

LEMMA RoundUp ==
  ASSUME NEW m \in Nat, NEW n \in Nat \ {0}
  PROVE  /\ (m + n - 1) \div n \in Nat
         /\ ((m + n - 1) \div n) * n \in Nat
         /\ m <= ((m + n - 1) \div n) * n
<1>1. m + n - 1 \in Nat
  OBVIOUS
<1> QED  BY <1>1, Quotient, TimesMonotonic

LEMMA SectorsCover ==
  ASSUME NEW m \in Nat
  PROVE  Sectors(m) \in Nat /\ m <= Sectors(m) * SectorSize
<1>1. SectorSize \in Nat \ {0}
  BY UnitAssumption
<1> QED  BY <1>1, RoundUp DEF Sectors

LEMMA AlignUpCovers ==
  ASSUME NEW m \in Nat
  PROVE  AlignUp(m) \in Nat /\ m <= AlignUp(m)
<1>1. AlignSectors \in Nat \ {0}
  BY UnitAssumption
<1> QED  BY <1>1, RoundUp DEF AlignUp

(* The size of the index is never more than its entries take, and less only  *)
(* if they take 2^32 bytes.                                                  *)
LEMMA IndexSize ==
  ASSUME NEW t \in Nat
  PROVE  /\ t * EntrySize \in Nat /\ IndexBytes(t) \in Nat
         /\ IndexBytes(t) <= t * EntrySize
         /\ t * EntrySize < WordSize => IndexBytes(t) = t * EntrySize
<1>1. EntrySize \in Nat \ {0} /\ WordSize \in Nat \ {0}
  BY UnitAssumption
<1>2. t * EntrySize \in Nat
  BY <1>1, TimesMonotonic
<1> QED  BY <1>1, <1>2, Remainder DEF IndexBytes

(* The first byte of the data region. *)
DataStart == sb.data_offset * SectorSize

(* The superblock is one that SuperblockInitialize wrote, or of another      *)
(* program.                                                                  *)
SuperblockInv == sb \in {SuperblockInitialize(g) : g \in Geometries} \cup {Foreign}

(* Superblock, index and data follow each other and do not overlap.          *)
LEMMA RegionsApart ==
  ASSUME SuperblockInv, sb.ours
  PROVE  /\ sb.block_size \in Nat \ {0} /\ sb.total \in Nat
         /\ DataStart \in Nat
         /\ IndexStart \in Nat \ {0} /\ IndexBytes(sb.total) \in Nat
         /\ IndexStart + IndexBytes(sb.total) <= DataStart
<1>1. PICK g \in Geometries : sb = SuperblockInitialize(g)
  BY DEF SuperblockInv, Foreign
<1>2. g.block_size \in Nat \ {0} /\ g.total \in Nat
  BY GeometryAssumption
<1> DEFINE m == Sectors(g.total * EntrySize)
<1>3. SectorSize \in Nat \ {0}
  BY UnitAssumption
<1>4. /\ g.total * EntrySize \in Nat /\ IndexBytes(g.total) \in Nat
      /\ IndexBytes(g.total) <= g.total * EntrySize
  BY <1>2, IndexSize
<1>5. m \in Nat /\ g.total * EntrySize <= m * SectorSize
  BY <1>4, SectorsCover
<1> HIDE DEF m
<1>6. AlignUp(1 + m) \in Nat /\ m + 1 <= AlignUp(1 + m)
  BY <1>5, AlignUpCovers
<1>7. /\ AlignUp(1 + m) * SectorSize \in Nat
      /\ (m + 1) * SectorSize <= AlignUp(1 + m) * SectorSize
  BY <1>3, <1>5, <1>6, TimesMonotonic
<1>8. (m + 1) * SectorSize = m * SectorSize + SectorSize /\ m * SectorSize \in Int
  BY <1>3, <1>5, TimesNext
<1>9. /\ sb.block_size = g.block_size /\ sb.total = g.total
      /\ sb.data_offset = AlignUp(1 + m)
  BY <1>1 DEF SuperblockInitialize, m
<1> QED
  BY <1>2, <1>3, <1>4, <1>5, <1>7, <1>8, <1>9 DEF DataStart, IndexStart

(* Two slots do not overlap.                                                 *)
LEMMA SlotsApart ==
  ASSUME NEW s \in Nat, NEW t \in Nat, s # t, NEW n \in Nat, DataStart \in Nat
  PROVE  SlotBytes(s, n) \cap SlotBytes(t, n) = {}
<1>1. CASE s < t
  <2>1. s * n + n <= t * n /\ s * n \in Int /\ t * n \in Int
    BY <1>1, TimesMonotonic, TimesNext
  <2> QED  BY <2>1 DEF SlotBytes, Span, DataStart
<1>2. CASE t < s
  <2>1. t * n + n <= s * n /\ s * n \in Int /\ t * n \in Int
    BY <1>2, TimesMonotonic, TimesNext
  <2> QED  BY <2>1 DEF SlotBytes, Span, DataStart
<1> QED  BY <1>1, <1>2

(* No slot reaches into what lies before the data region.                    *)
LEMMA SlotsBehind ==
  ASSUME NEW s \in Nat, NEW n \in Nat, DataStart \in Nat
  PROVE  \A i \in SlotBytes(s, n) : i \in Nat /\ DataStart <= i
<1>1. s * n \in Nat
  BY TimesMonotonic
<1> QED  BY <1>1 DEF SlotBytes, Span, DataStart

-----------------------------------------------------------------------------
(* What is on the partition *)

(* An attached context has the geometry of its partition.                    *)
GeometryInv ==
  /\ SuperblockInv
  /\ part \in [Bytes -> Int]
  /\ session \in {"detached", "attached", "overrun"}
  /\ session # "detached" =>
       sb.ours /\ block_size = sb.block_size /\ total = sb.total
  /\ session = "attached" => total * EntrySize <= IndexBytes(total)
  /\ session = "overrun" => total * EntrySize >= WordSize
  /\ sb.ours => map \in [MapSlots -> Nat \cup {NoBlock}]

(* Slot s is on the partition and has the bytes of block b.                  *)
SlotHolds(s, b) ==
  LET n == sb.block_size
  IN  /\ InPartition(s, n)
      /\ \A i \in SlotBytes(s, n) : part[i] = b * n + (i - DataStart - s * n)

DataInv ==
  sb.ours => \A s \in MapSlots : map[s] # NoBlock => SlotHolds(s, map[s])

(* Byte i of the superblock or of the index is what it should be.            *)
ByteIsMeta(i) ==
  /\ i < SectorSize => part[i] = SuperByte
  /\ i \in Span(IndexStart, IndexBytes(sb.total)) =>
       part[i] = EntryByte((i - IndexStart) \div EntrySize)

MetadataInv == sb.ours => \A i \in Bytes : ByteIsMeta(i)

PartitionInv == GeometryInv /\ DataInv /\ MetadataInv

LEMMA BytesAre == Bytes \subseteq Nat
BY SizeAssumption DEF Bytes

LEMMA SlotsAre ==
  ASSUME SuperblockInv, sb.ours
  PROVE  MapSlots \subseteq Nat
BY RegionsApart DEF MapSlots

(* A flush writes bytes of the index only.                                   *)
LEMMA FlushedIs ==
  ASSUME NEW p \in [Bytes -> Int], NEW t \in Nat
  PROVE  /\ Flushed(p, t) \in [Bytes -> Int]
         /\ \A i \in Bytes :
              Flushed(p, t)[i] = IF i \in Span(IndexStart, IndexBytes(t))
                                   THEN EntryByte((i - IndexStart) \div EntrySize)
                                   ELSE p[i]
<1>1. \A i \in Bytes : (i - IndexStart) \div EntrySize \in Int
  <2>1. \A i \in Bytes : i - IndexStart \in Int
    BY BytesAre, UnitAssumption DEF IndexStart
  <2>2. EntrySize \in Nat \ {0}
    BY UnitAssumption
  <2> QED  BY <2>1, <2>2, Quotient
<1>2. \A k \in Int : EntryByte(k) \in Int
  BY DEF EntryByte
<1> QED  BY <1>1, <1>2 DEF Flushed

(* A population writes the bytes of its slot only.                           *)
LEMMA StoredIs ==
  ASSUME NEW p \in [Bytes -> Int], NEW s \in Nat, NEW b \in Nat, NEW n \in Nat,
         DataStart \in Nat
  PROVE  /\ Stored(p, s, b, n) \in [Bytes -> Int]
         /\ \A i \in Bytes :
              Stored(p, s, b, n)[i] = IF i \in SlotBytes(s, n)
                                        THEN b * n + (i - DataStart - s * n)
                                        ELSE p[i]
<1>1. s * n \in Int /\ b * n \in Int
  BY TimesMonotonic
<1>2. \A i \in Bytes : b * n + (i - DataStart - s * n) \in Int
  BY <1>1, BytesAre
<1> QED  BY <1>2 DEF Stored, DataStart

-----------------------------------------------------------------------------
(* The steps of the partition *)

LEMMA PartitionInit == ASSUME PInit PROVE PartitionInv
<1>1. SuperblockInv /\ session = "detached"
  BY DEF PInit, SuperblockInv
<1>2. CASE ~sb.ours
  <2>1. part \in [Bytes -> Int]
    BY <1>2 DEF PInit, Blank
  <2> QED
    BY <1>1, <1>2, <2>1 DEF PartitionInv, GeometryInv, DataInv, MetadataInv
<1>3. CASE sb.ours
  <2> DEFINE n == sb.block_size
             t == sb.total
             q == Data(map, n)
             p == Initialized(q)
  <2>1. /\ map \in LeftOver(n) /\ part = Flushed(p, t)
    BY <1>3 DEF PInit
  <2>2. /\ n \in Nat \ {0} /\ t \in Nat /\ DataStart \in Nat
        /\ IndexStart \in Nat \ {0} /\ IndexBytes(t) \in Nat
        /\ IndexStart + IndexBytes(t) <= DataStart
    BY <1>1, <1>3, RegionsApart
  <2>3. /\ map \in [MapSlots -> {NoBlock, 0}]
        /\ \A s \in MapSlots : map[s] # NoBlock => InPartition(s, n)
    BY <2>1 DEF LeftOver
  <2>4. \A i \in Bytes : (i - DataStart) % n \in Int
    BY <2>2, BytesAre
  <2>5. /\ q \in [Bytes -> Int]
        /\ \A i \in Bytes : \A s \in MapSlots :
             map[s] # NoBlock /\ i \in SlotBytes(s, n) =>
               q[i] = (i - DataStart) % n
    BY <2>4 DEF Data, Blank, DataStart
  <2>6. /\ p \in [Bytes -> Int]
        /\ \A i \in Bytes : p[i] = IF i < SectorSize THEN SuperByte ELSE q[i]
    BY <2>5 DEF Initialized, SuperByte
  <2> HIDE DEF n, t, p, q
  <2>7. /\ part \in [Bytes -> Int]
        /\ \A i \in Bytes :
             part[i] = IF i \in Span(IndexStart, IndexBytes(t))
                         THEN EntryByte((i - IndexStart) \div EntrySize) ELSE p[i]
    BY <2>1, <2>2, <2>6, FlushedIs
  <2>8. GeometryInv
    BY <1>1, <1>3, <2>3, <2>7 DEF GeometryInv
  <2>9. MetadataInv
    <3>1. \A i \in Bytes : i < SectorSize => i \notin Span(IndexStart, IndexBytes(t))
      BY <2>2, BytesAre DEF Span, IndexStart
    <3> QED  BY <2>6, <2>7, <3>1 DEF MetadataInv, ByteIsMeta, t
  <2>10. DataInv
    <3>1. SUFFICES ASSUME NEW s \in MapSlots, map[s] # NoBlock
                   PROVE  SlotHolds(s, map[s])
      BY DEF DataInv
    <3>2. s \in Nat /\ map[s] = 0 /\ InPartition(s, n)
      BY <1>1, <1>3, <2>3, <3>1, SlotsAre
    <3>3. ASSUME NEW i \in SlotBytes(s, n)
          PROVE  part[i] = map[s] * n + (i - DataStart - s * n)
      <4>1. i \in Bytes /\ i \in Nat /\ DataStart <= i
        BY <2>2, <3>2, <3>3, SlotsBehind DEF InPartition
      <4>2. i \notin Span(IndexStart, IndexBytes(t)) /\ ~(i < SectorSize)
        BY <2>2, <4>1 DEF Span, IndexStart
      <4>3. part[i] = (i - DataStart) % n
        BY <2>5, <2>6, <2>7, <3>1, <4>1, <4>2 DEF n
      <4>4. s * n \in Nat /\ s * n <= i - DataStart /\ i - DataStart < s * n + n
        <5>1. s * n \in Nat
          BY <2>2, <3>2, TimesMonotonic
        <5> QED  BY <2>2, <3>3, <4>1, <5>1 DEF SlotBytes, Span, DataStart
      <4>5. i - DataStart \in Int
        BY <2>2, <4>1
      <4>6. (i - DataStart) \div n = s
        BY <2>2, <3>2, <4>4, <4>5, QuotientIs
      <4>7. (i - DataStart) % n = (i - DataStart) - s * n
        BY <2>2, <4>5, <4>6, Quotient
      <4>8. map[s] * n = 0
        BY <2>2, <3>2
      <4> QED  BY <2>2, <3>2, <4>1, <4>3, <4>4, <4>7, <4>8
    <3> QED  BY <3>2, <3>3 DEF SlotHolds, n
  <2> QED  BY <2>8, <2>9, <2>10 DEF PartitionInv
<1> QED  BY <1>2, <1>3

(* A flush, of an attach session or of its end, writes the index again.      *)
LEMMA FlushKeeps ==
  ASSUME PartitionInv, Flush \/ Detach
  PROVE  PartitionInv'
<1> DEFINE n == sb.block_size
           t == sb.total
<1>1. /\ sb.ours /\ total = t /\ session = "attached"
      /\ part' = Flushed(part, t) /\ part \in [Bytes -> Int]
      /\ UNCHANGED <<sb, map, block_size>>
      /\ session' = "detached" \/ UNCHANGED <<session, total>>
  BY DEF PartitionInv, GeometryInv, Flush, Detach
<1>2. /\ n \in Nat \ {0} /\ t \in Nat /\ DataStart \in Nat
      /\ IndexStart \in Nat \ {0} /\ IndexBytes(t) \in Nat
      /\ IndexStart + IndexBytes(t) <= DataStart
  BY <1>1, RegionsApart DEF PartitionInv, GeometryInv
<1>3. /\ part' \in [Bytes -> Int]
      /\ \A i \in Bytes :
           part'[i] = IF i \in Span(IndexStart, IndexBytes(t))
                        THEN EntryByte((i - IndexStart) \div EntrySize) ELSE part[i]
  BY <1>1, <1>2, FlushedIs
<1>4. GeometryInv'
  BY <1>1, <1>3 DEF PartitionInv, GeometryInv, SuperblockInv, MapSlots
<1>5. MetadataInv'
  <2>1. \A i \in Bytes : i < SectorSize => i \notin Span(IndexStart, IndexBytes(t))
    BY <1>2, BytesAre DEF Span, IndexStart
  <2> QED
    BY <1>1, <1>3, <2>1 DEF PartitionInv, MetadataInv, ByteIsMeta, t
<1>6. DataInv'
  <2>1. SUFFICES ASSUME NEW s \in MapSlots, map[s] # NoBlock
                 PROVE  SlotHolds(s, map[s])'
    BY <1>1 DEF DataInv, MapSlots
  <2>2. SlotHolds(s, map[s]) /\ s \in Nat
    BY <1>1, <2>1, SlotsAre DEF PartitionInv, GeometryInv, DataInv
  <2>3. \A i \in SlotBytes(s, n) : part'[i] = part[i]
    <3>1. \A i \in SlotBytes(s, n) : i \in Bytes /\ i \in Nat /\ DataStart <= i
      BY <1>2, <2>2, SlotsBehind DEF SlotHolds, InPartition
    <3>2. \A i \in SlotBytes(s, n) : i \notin Span(IndexStart, IndexBytes(t))
      BY <1>2, <3>1 DEF Span
    <3> QED  BY <1>3, <3>1, <3>2
  <2> QED
    BY <1>1, <2>2, <2>3 DEF SlotHolds, SlotBytes, InPartition, DataStart
<1> QED  BY <1>4, <1>5, <1>6 DEF PartitionInv

(* A population writes its slot and no other, and no metadata.               *)
LEMMA PopulateKeeps ==
  ASSUME PartitionInv,
         NEW s \in MapSlots, NEW b \in SourceBlocks(block_size), Populate(s, b)
  PROVE  PartitionInv'
<1> DEFINE n == sb.block_size
           t == sb.total
<1>1. /\ sb.ours /\ block_size = n /\ session = "attached"
      /\ part' = Stored(part, s, b, n) /\ part \in [Bytes -> Int]
      /\ map' = [map EXCEPT ![s] = b] /\ map \in [MapSlots -> Nat \cup {NoBlock}]
      /\ UNCHANGED <<sb, block_size, total, session>>
      /\ InPartition(s, n)
  BY DEF PartitionInv, GeometryInv, Populate
<1>2. /\ n \in Nat \ {0} /\ t \in Nat /\ DataStart \in Nat
      /\ IndexStart \in Nat \ {0} /\ IndexBytes(t) \in Nat
      /\ IndexStart + IndexBytes(t) <= DataStart
      /\ s \in Nat /\ b \in Nat
  BY <1>1, RegionsApart, SlotsAre, SizeAssumption
  DEF PartitionInv, GeometryInv, SourceBlocks
<1>3. /\ part' \in [Bytes -> Int]
      /\ \A i \in Bytes :
           part'[i] = IF i \in SlotBytes(s, n)
                        THEN b * n + (i - DataStart - s * n) ELSE part[i]
  <2>1. n \in Nat /\ s \in Nat /\ b \in Nat /\ DataStart \in Nat
    BY <1>2
  <2> HIDE DEF n
  <2>2. /\ Stored(part, s, b, n) \in [Bytes -> Int]
        /\ \A i \in Bytes :
             Stored(part, s, b, n)[i] = IF i \in SlotBytes(s, n)
                                          THEN b * n + (i - DataStart - s * n)
                                          ELSE part[i]
    BY <1>1, <2>1, StoredIs
  <2>3. part' = Stored(part, s, b, n)
    BY <1>1
  <2> QED  BY <2>2, <2>3
<1>4. GeometryInv'
  BY <1>1, <1>2, <1>3 DEF PartitionInv, GeometryInv, SuperblockInv, MapSlots
<1>5. MetadataInv'
  <2>1. \A i \in SlotBytes(s, n) : i \in Nat /\ DataStart <= i
    BY <1>2, SlotsBehind
  <2>2. \A i \in SlotBytes(s, n) :
          ~(i < SectorSize) /\ i \notin Span(IndexStart, IndexBytes(t))
    BY <1>2, <2>1 DEF Span, IndexStart
  <2> QED  BY <1>1, <1>3, <2>2 DEF PartitionInv, MetadataInv, ByteIsMeta, t
<1>6. DataInv'
  <2>1. SUFFICES ASSUME NEW u \in MapSlots, NEW c, c = map'[u], c # NoBlock
                 PROVE  SlotHolds(u, c)'
    BY <1>1, Zenon DEF DataInv, MapSlots
  <2>2. u \in Nat
    BY <1>1, <2>1, SlotsAre DEF PartitionInv, GeometryInv
  <2>3. CASE u = s
    <3>1. c = b
      BY <1>1, <2>1, <2>3
    <3>2. \A i \in SlotBytes(s, n) : part'[i] = b * n + (i - DataStart - s * n)
      BY <1>1, <1>3 DEF InPartition
    <3> QED
      BY <1>1, <2>3, <3>1, <3>2 DEF SlotHolds, SlotBytes, InPartition, DataStart
  <2>4. CASE u # s
    <3>1. c = map[u] /\ SlotHolds(u, c)
      BY <1>1, <2>1, <2>4 DEF PartitionInv, DataInv
    <3>2. SlotBytes(u, n) \cap SlotBytes(s, n) = {}
      BY <1>2, <2>2, <2>4, SlotsApart
    <3>3. \A i \in SlotBytes(u, n) : part'[i] = part[i]
      BY <1>3, <3>1, <3>2 DEF SlotHolds, InPartition
    <3> QED
      BY <1>1, <3>1, <3>3 DEF SlotHolds, SlotBytes, InPartition, DataStart
  <2> QED  BY <2>3, <2>4
<1> QED  BY <1>4, <1>5, <1>6 DEF PartitionInv

(* What changes neither the superblock nor a byte nor an entry's block.      *)
LEMMA BytesKept ==
  ASSUME PartitionInv, GeometryInv', UNCHANGED <<sb, part>>,
         \A s \in MapSlots : map'[s] \in {map[s], NoBlock}
  PROVE  PartitionInv'
<1>1. DataInv'
  BY DEF PartitionInv, DataInv, SlotHolds, SlotBytes, InPartition, DataStart, MapSlots
<1>2. MetadataInv'
  BY DEF PartitionInv, MetadataInv, ByteIsMeta
<1> QED  BY <1>1, <1>2 DEF PartitionInv

LEMMA PartitionNext ==
  ASSUME PartitionInv, PartitionStep \/ Detach \/ UNCHANGED pvars
  PROVE  PartitionInv'
<1>1. ASSUME NEW asked \in AttachSizes, Attach(asked)
      PROVE  PartitionInv'
  <2>1. sb.ours /\ sb.total \in Nat
    BY <1>1, RegionsApart DEF Attach, SuperblockOk, PartitionInv, GeometryInv
  <2>2. /\ sb.total * EntrySize \in Nat /\ IndexBytes(sb.total) \in Nat
        /\ ~(sb.total * EntrySize < WordSize) => sb.total * EntrySize >= WordSize
        /\ Overruns(sb.total) => ~(sb.total * EntrySize < WordSize)
        /\ ~Overruns(sb.total) => sb.total * EntrySize <= IndexBytes(sb.total)
    BY <2>1, IndexSize, UnitAssumption DEF Overruns
  <2>3. GeometryInv'
    BY <1>1, <2>1, <2>2
    DEF Attach, PartitionInv, GeometryInv, SuperblockInv, MapSlots, IndexBytes
  <2> QED  BY <1>1, <2>3, BytesKept DEF Attach
<1>2. ASSUME NEW asked \in AttachSizes, AttachFails(asked)
      PROVE  PartitionInv'
  <2>1. GeometryInv'
    BY <1>2 DEF AttachFails, PartitionInv, GeometryInv, SuperblockInv, MapSlots
  <2> QED  BY <1>2, <2>1, BytesKept DEF AttachFails
<1>3. ASSUME NEW s \in MapSlots, PopulateFails(s)
      PROVE  PartitionInv'
  <2>1. map \in [MapSlots -> Nat \cup {NoBlock}]
    BY <1>3 DEF PopulateFails, PartitionInv, GeometryInv
  <2>2. GeometryInv'
    BY <1>3, <2>1
    DEF PopulateFails, PartitionInv, GeometryInv, SuperblockInv, MapSlots, IndexBytes
  <2> QED  BY <1>3, <2>1, <2>2, BytesKept DEF PopulateFails
<1>4. CASE UNCHANGED pvars
  <2>1. GeometryInv'
    BY <1>4
    DEF pvars, PartitionInv, GeometryInv, SuperblockInv, MapSlots, IndexBytes
  <2> QED  BY <1>4, <2>1, BytesKept DEF pvars
<1> QED
  BY <1>1, <1>2, <1>3, <1>4, FlushKeeps, PopulateKeeps DEF PartitionStep

-----------------------------------------------------------------------------
(* The request *)

(* What a request has done: nothing, or the copies of the first offset bytes *)
Untouched == served = <<>> /\ filled = <<>> /\ offset = 0
Copied    == \A i \in Room : buf[i] = IF i < offset THEN start + i ELSE Unset

(* An unfinished request is one of some bytes, in an attach session.         *)
ActiveInv ==
  /\ start \in Nat /\ len \in Nat /\ addr \in Nat
  /\ stage \in {"idle", "check", "serve", "forward", "fill", "done"}
  /\ stage = "idle" => Untouched /\ Copied /\ checked = {}
  /\ stage \notin {"idle", "done"} => session = "attached" /\ len > 0

(* IsRangeFullyCached: the blocks before that of addr have been found.        *)
CheckInv ==
  stage = "check" =>
    /\ Untouched /\ Copied
    /\ addr = start \/ start + sb.block_size <= addr
    /\ addr < End + sb.block_size
    /\ checked = lo .. (addr \div sb.block_size - 1)

(* ServeReadFromSsdCache: the bytes before addr have been copied, and unless  *)
(* it is the first or the last, the next one starts a block.                 *)
ServeInv ==
  stage = "serve" =>
    /\ offset \in Nat /\ remaining \in Nat /\ offset + remaining = len
    /\ addr = start + offset
    /\ Copied /\ filled = <<>>
    /\ IF offset = 0 THEN served = <<>>
                     ELSE served = UpTo((addr - 1) \div sb.block_size)
    /\ \/ offset = 0 \/ remaining = 0
       \/ (addr \div sb.block_size) * sb.block_size = addr
    /\ checked \in {lo .. hi, lo .. (hi - 1)} /\ lo \in checked

(* CacheFilterReadCompletionRoutine: the blocks before addr have been offered.*)
FillInv ==
  /\ stage = "forward" => filled = <<>>
  /\ stage = "fill" =>
       /\ (addr \div sb.block_size) * sb.block_size = addr
       /\ addr \div sb.block_size >= lo /\ addr < End + sb.block_size
       /\ filled = UpTo(addr \div sb.block_size - 1)
  /\ stage \in {"forward", "fill"} => served = <<>> \/ remaining # 0

(* A request that is complete has been served whole, or forwarded.           *)
DoneInv ==
  stage = "done" =>
    /\ filled # <<>> => filled = UpTo(hi)
    /\ len > 0 /\ served # <<>> /\ remaining = 0 =>
         /\ served = UpTo(hi)
         /\ \A i \in Room : buf[i] = IF i < len THEN start + i ELSE Unset

RequestInv == ActiveInv /\ CheckInv /\ ServeInv /\ FillInv /\ DoneInv

IndInv == PartitionInv /\ RequestInv

(* The blocks of a request, one more at a time.                              *)
LEMMA UpToNext ==
  ASSUME NEW b \in Int, b >= lo - 1, lo \in Int
  PROVE  UpTo(b + 1) = Append(UpTo(b), b + 1)
<1>1. b - lo + 1 \in Nat /\ (b + 1) - lo + 1 = (b - lo + 1) + 1
  OBVIOUS
<1>2. UpTo(b) \in Seq(Int) /\ Len(UpTo(b)) = b - lo + 1
  BY <1>1 DEF UpTo
<1>3. UpTo(b + 1) \in Seq(Int) /\ Len(UpTo(b + 1)) = (b - lo + 1) + 1
  BY <1>1 DEF UpTo
<1>4. \A i \in 1 .. (b - lo + 1) : UpTo(b + 1)[i] = UpTo(b)[i]
  BY <1>1 DEF UpTo
<1>5. UpTo(b + 1)[(b - lo + 1) + 1] = b + 1
  BY <1>1 DEF UpTo
<1> QED  BY <1>1, <1>2, <1>3, <1>4, <1>5

LEMMA UpToNone == ASSUME lo \in Int PROVE UpTo(lo - 1) = <<>>
BY DEF UpTo

(* The sizes of an unfinished request.                                       *)
LEMMA RequestIs ==
  ASSUME IndInv, stage \notin {"idle", "done"}
  PROVE  /\ session = "attached" /\ sb.ours /\ block_size = sb.block_size
         /\ sb.block_size \in Nat \ {0}
         /\ start \in Nat /\ len \in Nat \ {0} /\ addr \in Nat
         /\ End \in Nat /\ End = start + len
         /\ lo \in Nat /\ hi \in Nat /\ lo <= hi
<1>1. /\ session = "attached" /\ sb.ours /\ block_size = sb.block_size
      /\ start \in Nat /\ len \in Nat \ {0} /\ addr \in Nat
  BY DEF IndInv, RequestInv, ActiveInv, PartitionInv, GeometryInv
<1>2. sb.block_size \in Nat \ {0}
  BY <1>1, RegionsApart DEF IndInv, PartitionInv, GeometryInv
<1>3. End \in Nat /\ End = start + len /\ End - 1 \in Nat /\ start <= End - 1
  BY <1>1 DEF End
<1>4. lo \in Nat /\ hi \in Nat
  <2>1. lo \in Nat
    BY <1>1, <1>2, QuotientNat DEF lo
  <2>2. hi \in Nat
    BY <1>2, <1>3, QuotientNat DEF hi
  <2> QED  BY <2>1, <2>2
<1>5. lo <= hi
  BY <1>1, <1>2, <1>3, QuotientMonotonic DEF lo, hi
<1> QED  BY <1>1, <1>2, <1>3, <1>4, <1>5

LEMMA RequestInit == ASSUME Init PROVE RequestInv
BY DEF Init, RequestInv, ActiveInv, CheckInv, ServeInv, FillInv, DoneInv,
       Untouched, Copied

(* The partition goes on beside it.                                          *)
LEMMA PartitionKeepsRequest ==
  ASSUME IndInv,
         \/ PartitionStep \/ UNCHANGED pvars
         \/ Detach /\ stage \in {"idle", "done"},
         UNCHANGED rvars
  PROVE  RequestInv'
<1>1. UNCHANGED sb /\ (stage \notin {"idle", "done"} => UNCHANGED session)
  BY DEF IndInv, RequestInv, ActiveInv, PartitionStep, Attach, AttachFails,
         Populate, PopulateFails, Flush, Detach, pvars
<1> QED
  BY <1>1
  DEF rvars, IndInv, RequestInv, ActiveInv, CheckInv, ServeInv, FillInv,
      DoneInv, Untouched, Copied, Room, UpTo, End, lo, hi

-----------------------------------------------------------------------------
(* The steps of the request *)

LEMMA ArriveKeeps == ASSUME IndInv, Arrive PROVE RequestInv'
<1> DEFINE n == sb.block_size
<1>1. /\ sb.ours /\ n \in Nat \ {0}
  BY RegionsApart DEF IndInv, PartitionInv, GeometryInv, Arrive
<1>2. /\ start' \in Nat /\ len' \in Nat /\ addr' = start'
      /\ session' = "attached"
      /\ UNCHANGED <<sb, remaining, offset, buf, checked, served, filled>>
      /\ Untouched /\ Copied /\ checked = {}
  BY SizeAssumption DEF Arrive, pvars, IndInv, RequestInv, ActiveInv
<1>3. Untouched' /\ Copied'
  <2>1. Untouched' /\ Room' = Room /\ Room \subseteq Nat
    BY <1>1, <1>2, SizeAssumption DEF Untouched, Room
  <2> QED  BY <1>2, <2>1 DEF Untouched, Copied
<1>4. CASE len' = 0
  BY <1>2, <1>3, <1>4
  DEF Arrive, RequestInv, ActiveInv, CheckInv, ServeInv, FillInv, DoneInv, Untouched
<1>5. CASE len' # 0
  <2>1. stage' = "check"
    BY <1>5 DEF Arrive
  <2>2. start' \div n \in Nat
    BY <1>1, <1>2, QuotientNat
  <2>3. lo' = start' \div n /\ sb'.block_size = n
    BY <1>2 DEF lo
  <2> HIDE DEF n
  <2>4. checked' = lo' .. (addr' \div n - 1)
    BY <1>2, <2>2, <2>3
  <2>5. addr' = start' /\ addr' \in Nat /\ End' \in Nat /\ addr' <= End'
    <3>1. addr' = start'
      BY <1>2
    <3>2. addr' \in Nat
      BY <1>2
    <3>3. End' = start' + len'
      BY DEF End
    <3>4. start' \in Nat /\ len' \in Nat
      BY <1>2
    <3>5. \A x, y \in Nat : x + y \in Nat /\ x <= x + y
      OBVIOUS
    <3> QED  BY <3>1, <3>2, <3>3, <3>4, <3>5
  <2>6. addr' < End' + n
    <3>1. \A x, y \in Nat : x <= y => x < y + n
      BY <1>1
    <3> QED  BY <2>5, <3>1
  <2>7. CheckInv'
    BY <1>3, <2>1, <2>3, <2>4, <2>5, <2>6 DEF CheckInv
  <2> QED
    BY <1>2, <1>5, <2>1, <2>7
    DEF RequestInv, ActiveInv, ServeInv, FillInv, DoneInv
<1> QED  BY <1>4, <1>5

LEMMA CheckHitKeeps == ASSUME IndInv, CheckHit PROVE RequestInv'
<1> DEFINE n == sb.block_size
           b == addr \div n
<1>1. /\ session = "attached" /\ sb.ours /\ block_size = n
      /\ n \in Nat \ {0} /\ start \in Nat /\ addr \in Nat
      /\ End \in Nat /\ lo \in Nat /\ len > 0
  BY RequestIs DEF CheckHit
<1>2. /\ Untouched /\ Copied /\ checked = lo .. (b - 1)
      /\ addr = start \/ start + n <= addr
      /\ addr < End
  BY DEF CheckHit, IndInv, RequestInv, CheckInv
<1>3. /\ stage' = "check" /\ addr' = addr + n /\ checked' = checked \cup {b}
      /\ UNCHANGED <<sb, session, start, len, stage, remaining, offset, buf, served, filled>>
  BY <1>1 DEF CheckHit, pvars
<1>4. b \in Nat /\ lo <= b /\ (addr + n) \div n = b + 1
  <2>1. start <= addr /\ start \in Int /\ addr \in Int
    BY <1>1, <1>2
  <2>2. lo = start \div n
    BY DEF lo
  <2> HIDE DEF n
  <2>3. lo <= b
    BY <1>1, <2>1, <2>2, QuotientMonotonic
  <2>4. b \in Nat
    BY <1>1, QuotientNat
  <2>5. (addr + n) \div n = b + 1
    BY <1>1, <2>1, QuotientNext
  <2> QED  BY <2>3, <2>4, <2>5
<1>5. checked' = lo .. ((addr' \div n) - 1)
  <2>1. addr' \div n = b + 1
    BY <1>3, <1>4
  <2> HIDE DEF b, n
  <2> QED  BY <1>1, <1>2, <1>3, <1>4, <2>1
<1>6. /\ addr' \in Nat /\ start + n <= addr' /\ addr' < End + n
  BY <1>1, <1>2, <1>3
<1>7. lo' = lo /\ End' = End /\ Untouched' /\ Copied'
  BY <1>2, <1>3 DEF lo, End, Untouched, Copied, Room
<1>8. CheckInv'
  BY <1>3, <1>5, <1>6, <1>7 DEF CheckInv
<1> QED
  BY <1>1, <1>3, <1>6, <1>8
  DEF IndInv, RequestInv, ActiveInv, ServeInv, FillInv, DoneInv

(* The check ends at a block of the request that is its last or one behind.  *)
LEMMA CheckEndKeeps == ASSUME IndInv, CheckEnd PROVE RequestInv'
<1> DEFINE n == sb.block_size
           b == addr \div n
<1>1. /\ n \in Nat \ {0} /\ start \in Nat /\ addr \in Nat /\ len \in Nat \ {0}
      /\ End \in Nat /\ End = start + len /\ lo \in Nat /\ hi \in Nat
      /\ session = "attached"
  BY RequestIs DEF CheckEnd
<1>2. /\ Untouched /\ Copied /\ checked = lo .. (b - 1)
      /\ addr = start \/ start + n <= addr
      /\ addr < End + n /\ End <= addr
  BY <1>1 DEF CheckEnd, IndInv, RequestInv, CheckInv
<1>3. /\ stage' = "serve" /\ addr' = start /\ remaining' = len
      /\ UNCHANGED <<sb, session, start, len, offset, buf, checked, served, filled>>
  BY DEF CheckEnd, pvars
<1>4. b \in Nat /\ hi <= b /\ b <= hi + 1 /\ lo + 1 <= b
  <2> DEFINE e == End - 1
  <2>1. /\ e \in Int /\ e <= addr /\ addr <= e + n
        /\ start \in Int /\ start + n <= addr /\ addr \in Int
    BY <1>1, <1>2
  <2>2. hi = e \div n /\ lo = start \div n
    BY DEF hi, lo
  <2> HIDE DEF e, n
  <2>3. hi <= b /\ b <= hi + 1 /\ lo + 1 <= b
    BY <1>1, <2>1, <2>2, QuotientMonotonic, QuotientStep
  <2>4. b \in Nat
    BY <1>1, QuotientNat
  <2> QED  BY <2>3, <2>4
<1> HIDE DEF b
<1>5. checked \in {lo .. hi, lo .. (hi - 1)} /\ lo \in checked
  BY <1>1, <1>2, <1>4
<1>6. lo' = lo /\ hi' = hi /\ Untouched' /\ Copied'
  BY <1>2, <1>3 DEF lo, hi, End, Untouched, Copied, Room
<1>7. ServeInv'
  BY <1>1, <1>3, <1>5, <1>6 DEF ServeInv, Untouched
<1> QED
  BY <1>1, <1>3, <1>7
  DEF RequestInv, ActiveInv, CheckInv, FillInv, DoneInv

(* Neither a miss nor a failure copies anything.                             *)
LEMMA GiveUpKeeps ==
  ASSUME IndInv, CheckMiss \/ ServeFail \/ ForwardFailed
  PROVE  RequestInv'
<1>1. CASE CheckMiss
  BY <1>1
  DEF CheckMiss, pvars, IndInv, RequestInv, ActiveInv, CheckInv, ServeInv,
      FillInv, DoneInv, Untouched
<1>2. CASE ServeFail
  BY <1>2
  DEF ServeFail, pvars, IndInv, RequestInv, ActiveInv, CheckInv, ServeInv,
      FillInv, DoneInv
<1>3. CASE ForwardFailed
  BY <1>3
  DEF ForwardFailed, pvars, IndInv, RequestInv, ActiveInv, CheckInv, ServeInv,
      FillInv, DoneInv
<1> QED  BY <1>1, <1>2, <1>3

(* The bytes of block b that temp_buffer has from the slot of b.             *)
LEMMA TempIs ==
  ASSUME IndInv, session = "attached",
         NEW b \in Nat, NEW s \in Cached(b), NEW j \in 0 .. (block_size - 1)
  PROVE  Temp(s, j) = b * block_size + j
<1> DEFINE n == block_size
<1>1. sb.ours /\ n = sb.block_size /\ n \in Nat \ {0} /\ DataStart \in Nat
  BY RegionsApart DEF IndInv, PartitionInv, GeometryInv
<1>2. s \in MapSlots /\ s \in Nat /\ map[s] = b
  BY <1>1, SlotsAre DEF Cached, IndInv, PartitionInv, GeometryInv
<1>3. \A i \in SlotBytes(s, n) : part[i] = b * n + (i - DataStart - s * n)
  BY <1>1, <1>2 DEF NoBlock, IndInv, PartitionInv, DataInv, SlotHolds
<1>4. s * n \in Nat /\ b * n \in Nat
  BY <1>1, <1>2, TimesMonotonic
<1> DEFINE d == s * n
           i == DataStart + d + j
<1>5. Temp(s, j) = part[i]
  BY <1>1 DEF Temp, DataStart
<1>6. SlotBytes(s, n) = Span(DataStart + d, n)
  BY DEF SlotBytes, DataStart
<1>7. part[i] = b * n + (i - DataStart - d)
  <2>1. i \in Span(DataStart + d, n)
    <3> HIDE DEF d
    <3>1. d \in Nat
      BY <1>4 DEF d
    <3> QED  BY <1>1, <3>1 DEF Span
  <2> HIDE DEF i
  <2> QED  BY <1>3, <1>6, <2>1
<1> HIDE DEF d
<1>8. i - DataStart - d = j
  BY <1>1, <1>4 DEF d
<1> QED  BY <1>5, <1>7, <1>8

(* One round of the copy loop: the rest of a block, or of the request.       *)
LEMMA ServeBlockKeeps == ASSUME IndInv, ServeBlock PROVE RequestInv'
<1>1. /\ session = "attached" /\ start \in Nat /\ addr \in Nat /\ lo \in Nat
      /\ len \in Nat \ {0}
  BY RequestIs DEF ServeBlock
<1>2. PICK n \in Nat \ {0} : n = sb.block_size /\ n = block_size
  BY RequestIs DEF ServeBlock
<1>3. PICK b \in Nat : b = addr \div n
  BY <1>1, QuotientNat
<1>4. /\ stage = "serve" /\ remaining \in Nat \ {0} /\ offset \in Nat
      /\ offset + remaining = len /\ addr = start + offset
      /\ Copied /\ filled = <<>>
      /\ IF offset = 0 THEN served = <<>> ELSE served = UpTo((addr - 1) \div n)
      /\ offset = 0 \/ b * n = addr
      /\ checked \in {lo .. hi, lo .. (hi - 1)} /\ lo \in checked
  BY <1>2, <1>3 DEF ServeBlock, IndInv, RequestInv, ServeInv
<1>5. PICK w \in Int, k \in Int : w = addr - b * n /\ k = CopySize(remaining, w)
  <2>1. PICK w \in Int : w = addr - b * n
    BY <1>1, TimesMonotonic
  <2>2. CopySize(remaining, w) \in Int
    BY <1>2, <1>4, <2>1 DEF CopySize
  <2> QED  BY <2>1, <2>2
<1>6. PICK s \in Cached(b) :
        /\ buf' = [i \in Room |-> IF i \in Span(offset, k)
                                   THEN Temp(s, w + i - offset) ELSE buf[i]]
        /\ served' = Append(served, b)
        /\ offset' = offset + k
        /\ remaining' = remaining - k
        /\ addr' = addr + k
  BY <1>2, <1>3, <1>5 DEF ServeBlock, Aligned
<1>7. UNCHANGED <<sb, session, start, len, stage, checked, filled>>
  BY DEF ServeBlock, pvars
<1>8. PICK m \in Nat : /\ m = b * n /\ addr = m + w
                       /\ w \in Nat /\ k \in Nat \ {0}
                       /\ k <= remaining /\ w + k <= n
                       /\ k = remaining \/ w + k = n
  <2>1. PICK m \in Nat : m = b * n
    BY <1>2, TimesMonotonic
  <2>2. m <= addr /\ addr < m + n
    <3>1. addr \in Int
      BY <1>1
    <3>2. (addr \div n) * n <= addr /\ addr < (addr \div n) * n + n
      BY <1>2, <3>1, Quotient
    <3> QED  BY <1>3, <2>1, <3>2
  <2>3. w \in Nat /\ w < n /\ addr = m + w
    BY <1>1, <1>2, <1>5, <2>1, <2>2
  <2>4. remaining \in Nat \ {0}
    BY <1>4
  <2>5. k = IF remaining < n - w THEN remaining ELSE n - w
    BY <1>2, <1>5 DEF CopySize
  <2>6. k \in Nat \ {0} /\ k <= remaining /\ w + k <= n /\ (k = remaining \/ w + k = n)
    BY <1>2, <2>3, <2>4, <2>5
  <2> QED  BY <2>1, <2>3, <2>6
<1>9. start <= addr /\ start \in Int /\ addr \in Int
  BY <1>1, <1>4
<1>10. lo = start \div n /\ lo <= b
  BY <1>1, <1>2, <1>3, <1>9, QuotientMonotonic DEF lo
<1>11. Copied'
  <2>1. m = b * n
    BY <1>8
  <2>2. ASSUME NEW i \in Span(offset, k)
        PROVE  Temp(s, w + i - offset) = start + i
    <3>1. i \in Int /\ offset <= i /\ i < offset + k
      BY <1>4, <1>8, <2>2 DEF Span
    <3>2. PICK j \in 0 .. (n - 1) : j = w + i - offset
      BY <1>2, <1>4, <1>8, <3>1
    <3>3. Temp(s, j) = m + j
      BY <1>1, <1>2, <2>1, TempIs
    <3>4. m + w = start + offset
      BY <1>4, <1>8
    <3> QED  BY <1>1, <1>4, <1>8, <3>1, <3>2, <3>3, <3>4
  <2>3. Room \subseteq Int /\ Room' = Room
    <3>1. Room = 0 .. (DiskSize + n - 1)
      BY <1>2 DEF Room
    <3>2. Room' = Room
      BY <1>7 DEF Room
    <3> QED  BY <3>1, <3>2
  <2>4. \A i \in Room :
          buf'[i] = IF i < offset + k THEN start + i ELSE Unset
    BY <1>4, <1>6, <1>8, <2>2, <2>3 DEF Copied, Span
  <2> QED  BY <1>6, <1>7, <2>3, <2>4 DEF Copied
<1>12. served' = UpTo(b)
  <2>1. PICK c \in Int : c = b - 1 /\ b = c + 1
    OBVIOUS
  <2>2. c >= lo - 1 /\ lo \in Int
    BY <1>1, <1>10, <2>1
  <2>3. UpTo(b) = Append(UpTo(c), b)
    BY <2>1, <2>2, UpToNext
  <2>4. CASE offset = 0
    <3>1. b = lo /\ c = lo - 1
      BY <1>1, <1>3, <1>4, <1>10, <2>1, <2>4
    <3>2. UpTo(c) = <<>>
      BY <2>2, <3>1, UpToNone
    <3> QED  BY <1>4, <1>6, <2>3, <2>4, <3>2
  <2>5. CASE offset # 0
    <3>1. (addr \div n) * n = addr
      BY <1>3, <1>4, <2>5
    <3>2. (addr - 1) \div n = c
      BY <1>3, <1>9, <2>1, <3>1, BlockBefore
    <3> QED  BY <1>4, <1>6, <2>3, <2>5, <3>2
  <2> QED  BY <2>4, <2>5
<1>13. PICK o, r, a \in Nat : /\ o = offset + k /\ r = remaining - k /\ a = addr + k
                              /\ o # 0 /\ o + r = len /\ a = start + o
  BY <1>1, <1>4, <1>8
<1>14. /\ offset' = o /\ remaining' = r /\ addr' = a
       /\ (a - 1) \div n = b /\ (r = 0 \/ (a \div n) * n = a)
  <2>1. m \in Nat /\ a = m + (w + k) /\ w + k \in Nat /\ w + k > 0 /\ w + k <= n
    BY <1>1, <1>8, <1>13
  <2>2. PICK e \in Int : e = a - 1
    OBVIOUS
  <2>3. e \div n = b
    <3>1. m <= e /\ e < m + n
      BY <1>2, <2>1, <2>2
    <3> QED  BY <1>2, <1>8, <3>1, QuotientIs
  <2>4. ASSUME w + k = n PROVE (a \div n) * n = a
    <3>1. PICK c \in Int : c = b + 1
      OBVIOUS
    <3>2. c * n = m + n
      BY <1>2, <1>8, <3>1, TimesNext
    <3>3. c * n = a
      BY <1>2, <2>1, <2>4, <3>2
    <3>4. a \div n = c
      BY <1>2, <1>13, <3>3, QuotientIs
    <3> QED  BY <3>3, <3>4
  <2>5. k = remaining => r = 0
    BY <1>4, <1>13
  <2> QED  BY <1>6, <1>8, <1>13, <2>2, <2>3, <2>4, <2>5
<1>15. lo' = lo /\ hi' = hi /\ End' = End /\ sb'.block_size = n /\ UpTo(b)' = UpTo(b)
  BY <1>2, <1>7 DEF lo, hi, End, UpTo
<1>16. served' = UpTo((addr - 1) \div sb.block_size)'
  <2>1. ((addr - 1) \div sb.block_size)' = b
    BY <1>14, <1>15
  <2> QED  BY <1>12, <1>15, <2>1 DEF UpTo
<1>17. ServeInv'
  BY <1>4, <1>7, <1>11, <1>13, <1>14, <1>15, <1>16 DEF ServeInv
<1> QED
  BY <1>1, <1>4, <1>7, <1>13, <1>14, <1>17
  DEF IndInv, RequestInv, ActiveInv, CheckInv, FillInv, DoneInv

(* The copy ends with the last byte, which is of the last block.             *)
LEMMA ServeEndKeeps == ASSUME IndInv, ServeEnd PROVE RequestInv'
<1>1. /\ session = "attached" /\ start \in Nat /\ addr \in Nat
      /\ len \in Nat \ {0} /\ End = start + len
  BY RequestIs DEF ServeEnd
<1>2. /\ stage = "serve" /\ remaining = 0 /\ offset \in Nat
      /\ offset + remaining = len /\ addr = start + offset
      /\ Copied /\ filled = <<>>
      /\ offset # 0 => served = UpTo((addr - 1) \div sb.block_size)
  BY DEF ServeEnd, IndInv, RequestInv, ServeInv
<1>3. offset = len /\ addr = End
  BY <1>1, <1>2
<1>4. served = UpTo(hi)
  BY <1>1, <1>2, <1>3 DEF hi
<1>5. /\ stage' = "done"
      /\ UNCHANGED <<sb, session, start, len, addr, remaining, offset, buf, served, filled>>
  BY DEF ServeEnd, pvars
<1>6. \A i \in Room' : buf'[i] = IF i < len' THEN start' + i ELSE Unset
  BY <1>2, <1>3, <1>5 DEF Copied, Room
<1>7. UpTo(hi)' = UpTo(hi)
  BY <1>5 DEF UpTo, lo, hi, End
<1>8. DoneInv'
  BY <1>2, <1>4, <1>5, <1>6, <1>7 DEF DoneInv
<1> QED
  BY <1>1, <1>5, <1>8 DEF RequestInv, ActiveInv, CheckInv, ServeInv, FillInv

(* The first block that is offered is that of the first byte.                *)
LEMMA ForwardedKeeps == ASSUME IndInv, Forwarded PROVE RequestInv'
<1>1. /\ session = "attached" /\ start \in Nat /\ len \in Nat \ {0}
      /\ End \in Nat /\ End = start + len
  BY RequestIs DEF Forwarded
<1>2. PICK n \in Nat \ {0} : n = sb.block_size /\ n = block_size
  BY RequestIs DEF Forwarded
<1>3. filled = <<>> /\ (served = <<>> \/ remaining # 0)
  BY DEF Forwarded, IndInv, RequestInv, FillInv
<1>4. PICK q \in Nat : q = start \div n
  BY <1>1, <1>2, QuotientNat
<1>5. PICK a \in Nat : a = q * n
  BY <1>2, <1>4, TimesMonotonic
<1>6. a <= start
  <2>1. start \in Int
    BY <1>1
  <2>2. (start \div n) * n <= start
    BY <1>2, <2>1, Quotient
  <2> QED  BY <1>4, <1>5, <2>2
<1>7. /\ stage' = "fill" /\ addr' = a
      /\ UNCHANGED <<sb, session, start, len, remaining, served, filled>>
  BY <1>2, <1>4, <1>5 DEF Forwarded, FillStart, Aligned, pvars
<1>8. a \div n = q
  BY <1>2, <1>5, QuotientIs
<1>9. a < End + n
  BY <1>1, <1>2, <1>6
<1>10. lo = q /\ lo' = q /\ End' = End /\ sb'.block_size = n
  BY <1>2, <1>4, <1>7 DEF lo, End
<1>11. UpTo(addr \div sb.block_size - 1)' = <<>>
  <2>1. (addr \div sb.block_size - 1)' = q - 1
    BY <1>7, <1>8, <1>10
  <2> QED  BY <1>10, <2>1 DEF UpTo
<1>12. FillInv'
  BY <1>3, <1>5, <1>7, <1>8, <1>9, <1>10, <1>11 DEF FillInv
<1> QED
  BY <1>1, <1>7, <1>12 DEF RequestInv, ActiveInv, CheckInv, ServeInv, DoneInv

LEMMA FillBlockKeeps == ASSUME IndInv, FillBlock PROVE RequestInv'
<1>1. /\ session = "attached" /\ start \in Nat /\ len \in Nat \ {0}
      /\ End \in Nat /\ addr \in Nat /\ lo \in Nat
  BY RequestIs DEF FillBlock
<1>2. PICK n \in Nat \ {0} : n = sb.block_size /\ n = block_size
  BY RequestIs DEF FillBlock
<1>3. PICK q \in Nat : q = addr \div n
  BY <1>1, <1>2, QuotientNat
<1>4. /\ stage = "fill" /\ addr < End /\ q * n = addr /\ q >= lo
      /\ filled = UpTo(q - 1)
      /\ served = <<>> \/ remaining # 0
  BY <1>2, <1>3 DEF FillBlock, IndInv, RequestInv, FillInv
<1>5. PICK c, a \in Nat : c = q + 1 /\ a = addr + n
  BY <1>1, <1>2, <1>3
<1>6. c * n = a /\ c >= lo /\ a < End + n /\ a \in Nat
  <2>1. c * n = q * n + n
    BY <1>2, <1>3, <1>5, TimesNext
  <2> QED  BY <1>1, <1>2, <1>3, <1>4, <1>5, <2>1
<1>7. a \div n = c
  BY <1>2, <1>5, <1>6, QuotientIs
<1>8. /\ stage' = "fill" /\ addr' = a /\ filled' = Append(filled, q)
      /\ UNCHANGED <<sb, session, start, len, stage, remaining, served>>
  BY <1>2, <1>3, <1>4, <1>5 DEF FillBlock, pvars
<1>9. filled' = UpTo(q)
  <2>1. PICK p \in Int : p = q - 1 /\ q = p + 1
    BY <1>3
  <2>2. p >= lo - 1 /\ lo \in Int
    BY <1>1, <1>4, <2>1
  <2> QED  BY <1>4, <1>8, <2>1, <2>2, UpToNext
<1>10. lo' = lo /\ End' = End /\ sb'.block_size = n /\ UpTo(q)' = UpTo(q)
  BY <1>2, <1>8 DEF lo, End, UpTo
<1>11. filled' = UpTo(addr \div sb.block_size - 1)'
  <2>1. (addr \div sb.block_size - 1)' = q
    BY <1>5, <1>7, <1>8, <1>10
  <2> QED  BY <1>9, <1>10, <2>1 DEF UpTo
<1>12. FillInv'
  BY <1>4, <1>6, <1>7, <1>8, <1>10, <1>11 DEF FillInv
<1> QED
  BY <1>1, <1>6, <1>8, <1>12
  DEF RequestInv, ActiveInv, CheckInv, ServeInv, DoneInv

(* The last block that has been offered is that of the last byte.            *)
LEMMA FillEndKeeps == ASSUME IndInv, FillEnd PROVE RequestInv'
<1>1. /\ session = "attached" /\ start \in Nat /\ len \in Nat \ {0}
      /\ End \in Nat /\ addr \in Nat
  BY RequestIs DEF FillEnd
<1>2. PICK n \in Nat \ {0} : n = sb.block_size
  BY RequestIs DEF FillEnd
<1>3. PICK q \in Nat : q = addr \div n
  BY <1>1, <1>2, QuotientNat
<1>4. /\ stage = "fill" /\ End <= addr /\ addr < End + n /\ q * n = addr
      /\ filled = UpTo(q - 1)
      /\ served = <<>> \/ remaining # 0
  BY <1>1, <1>2, <1>3 DEF FillEnd, IndInv, RequestInv, FillInv
<1>5. PICK c, e \in Int : c = q - 1 /\ q = c + 1 /\ e = End - 1
  BY <1>1, <1>3
<1>6. c * n <= e /\ e < c * n + n
  <2>1. q * n = c * n + n /\ c * n \in Int
    BY <1>2, <1>5, TimesNext
  <2> QED  BY <1>1, <1>2, <1>4, <1>5, <2>1
<1>7. hi = c
  <2>1. e \div n = c
    BY <1>2, <1>5, <1>6, QuotientIs
  <2> QED  BY <1>2, <1>5, <2>1 DEF hi
<1>8. filled = UpTo(hi)
  BY <1>4, <1>5, <1>7
<1>9. /\ stage' = "done"
      /\ UNCHANGED <<sb, session, start, len, addr, remaining, offset, buf, served, filled>>
  BY DEF FillEnd, pvars
<1>10. UpTo(hi)' = UpTo(hi)
  BY <1>9 DEF UpTo, lo, hi, End
<1>11. DoneInv'
  BY <1>4, <1>8, <1>9, <1>10 DEF DoneInv
<1> QED
  BY <1>1, <1>9, <1>11 DEF RequestInv, ActiveInv, CheckInv, ServeInv, FillInv

-----------------------------------------------------------------------------
(* Theorems *)

LEMMA Invariance == Spec => []IndInv
<1>1. Init => IndInv
  BY PartitionInit, RequestInit DEF Init, IndInv
<1>2. IndInv /\ [Next]_vars => IndInv'
  <2> SUFFICES ASSUME IndInv, [Next]_vars
               PROVE  IndInv'
    OBVIOUS
  <2>1. CASE RequestStep
    <3>1. UNCHANGED pvars
      BY <2>1
      DEF RequestStep, Arrive, CheckHit, CheckMiss, CheckEnd, ServeBlock,
          ServeFail, ServeEnd, Forwarded, ForwardFailed, FillBlock, FillEnd
    <3>2. PartitionInv'
      BY <3>1, PartitionNext DEF IndInv
    <3>3. RequestInv'
      BY <2>1, ArriveKeeps, CheckHitKeeps, CheckEndKeeps, GiveUpKeeps,
         ServeBlockKeeps, ServeEndKeeps, ForwardedKeeps, FillBlockKeeps,
         FillEndKeeps
      DEF RequestStep
    <3> QED  BY <3>2, <3>3 DEF IndInv
  <2>2. CASE /\ \/ PartitionStep \/ UNCHANGED pvars
                \/ Detach /\ stage \in {"idle", "done"}
             /\ UNCHANGED rvars
    <3>1. PartitionInv'
      BY <2>2, PartitionNext DEF IndInv
    <3>2. RequestInv'
      BY <2>2, PartitionKeepsRequest
    <3> QED  BY <3>1, <3>2 DEF IndInv
  <2> QED  BY <2>1, <2>2 DEF Next, vars
<1> QED  BY <1>1, <1>2, PTL DEF Spec

(* For every request, block size and alignment, the copy loop has written    *)
(* the requested bytes and no others, in order and without a gap.            *)
THEOREM CopyIsPrefix == Spec => []CopiedPrefix
<1>1. IndInv => CopiedPrefix
  BY DEF IndInv, RequestInv, ServeInv, Copied, CopiedPrefix
<1> QED  BY <1>1, Invariance, PTL

(* A request served from the SSD has all its bytes, from each of its blocks  *)
(* once and in order, whatever populations and flushes did beside it.        *)
THEOREM ServesWhole == Spec => []ServedWhole
<1>1. IndInv => ServedWhole
  BY DEF IndInv, RequestInv, DoneInv, ServedWhole
<1> QED  BY <1>1, Invariance, PTL

(* The check of the range leaves out no block but perhaps the last one.      *)
THEOREM ChecksButLast == Spec => []CheckedButLast
<1>1. IndInv => CheckedButLast
  BY DEF IndInv, RequestInv, ServeInv, CheckedButLast
<1> QED  BY <1>1, Invariance, PTL

(* The completion routine offers each block of the request once, in order.   *)
THEOREM FillsWhole == Spec => []FilledWhole
<1>1. IndInv => FilledWhole
  BY DEF IndInv, RequestInv, DoneInv, FilledWhole
<1> QED  BY <1>1, Invariance, PTL

(* For every geometry that SuperblockInitialize lays out, whatever size an   *)
(* attach asks for, the slot of each VALID entry keeps the bytes of its      *)
(* block.                                                                    *)
THEOREM DataStaysIntact == Spec => []DataIntact
<1>1. ASSUME IndInv, session = "attached", NEW s \in MapSlots, map[s] # NoBlock
      PROVE  /\ SlotBytes(s, block_size) \subseteq Bytes
             /\ part = Stored(part, s, map[s], block_size)
  <2>1. /\ sb.ours /\ block_size = sb.block_size /\ DataStart \in Nat
        /\ sb.block_size \in Nat /\ s \in Nat /\ map[s] \in Nat
        /\ part \in [Bytes -> Int]
    BY <1>1, RegionsApart, SlotsAre
    DEF IndInv, PartitionInv, GeometryInv
  <2>2. SlotHolds(s, map[s])
    BY <1>1, <2>1 DEF IndInv, PartitionInv, DataInv
  <2>3. PICK n \in Nat, b \in Nat : n = block_size /\ n = sb.block_size /\ b = map[s]
    BY <2>1
  <2>4. \A i \in SlotBytes(s, n) : part[i] = b * n + (i - DataStart - s * n)
    BY <2>2, <2>3 DEF SlotHolds
  <2>5. /\ Stored(part, s, b, n) \in [Bytes -> Int]
        /\ \A i \in Bytes :
             Stored(part, s, b, n)[i] = IF i \in SlotBytes(s, n)
                                          THEN b * n + (i - DataStart - s * n)
                                          ELSE part[i]
    BY <2>1, <2>3, StoredIs
  <2>6. \A i \in Bytes : part[i] = Stored(part, s, b, n)[i]
    BY <2>4, <2>5
  <2>7. part = Stored(part, s, b, n)
    BY <2>1, <2>5, <2>6
  <2> QED  BY <2>2, <2>3, <2>7 DEF SlotHolds, InPartition
<1>2. IndInv => DataIntact
  BY <1>1 DEF DataIntact
<1> QED  BY <1>2, Invariance, PTL

(* No population and no flush writes over the superblock, nor a population   *)
(* over the index.                                                           *)
THEOREM MetadataStaysIntact == Spec => []MetadataIntact
<1>1. ASSUME IndInv, sb.ours
      PROVE  part = Flushed(Initialized(part), sb.total)
  <2>1. part \in [Bytes -> Int] /\ sb.total \in Nat
    BY <1>1, RegionsApart DEF IndInv, PartitionInv, GeometryInv
  <2>2. \A i \in Bytes : ByteIsMeta(i)
    BY <1>1 DEF IndInv, PartitionInv, MetadataInv
  <2>3. Initialized(part) = part
    BY <2>1, <2>2 DEF Initialized, ByteIsMeta
  <2>4. /\ Flushed(part, sb.total) \in [Bytes -> Int]
        /\ \A i \in Bytes : Flushed(part, sb.total)[i] = part[i]
    BY <2>1, <2>2, FlushedIs DEF ByteIsMeta
  <2> QED  BY <2>1, <2>3, <2>4
<1>2. IndInv => MetadataIntact
  BY <1>1 DEF MetadataIntact
<1> QED  BY <1>2, Invariance, PTL

(* An attach leaves its allocation only if the map takes 2^32 bytes or more. *)
THEOREM MapIsAllocated == Spec => []MapAllocated
<1>1. IndInv => MapAllocated
  BY DEF IndInv, PartitionInv, GeometryInv, MapAllocated
<1> QED  BY <1>1, Invariance, PTL

=============================================================================
