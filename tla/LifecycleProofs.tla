--------------------------- MODULE LifecycleProofs ---------------------------
(***************************************************************************)
(* The list of the contexts is exact, and the resources of a context are   *)
(* those the calls on it account for: for every set of disks, callers and  *)
(* users, and every interleaving of their steps.                           *)
(***************************************************************************)
EXTENDS Lifecycle, FiniteSetTheorems, SequenceTheorems, TLAPS

-----------------------------------------------------------------------------
(* Rings of the disks of a sequence and the head of the list *)

Distinct(s) == \A i, j \in 1 .. Len(s) : s[i] = s[j] => i = j

(* The node at place k of the ring; the head is at both ends.                *)
RingAt(s, k) == IF k \in 1 .. Len(s) THEN s[k] ELSE ListHead

Ring(s, fl, bl) ==
  \A k \in 0 .. Len(s) :
    fl[RingAt(s, k)] = RingAt(s, k + 1) /\ bl[RingAt(s, k + 1)] = RingAt(s, k)

Links == [Nodes -> Nodes]

(* The disks that are on the list.                                           *)
Listed == {d \in Disks : dev[d] \in {"linked", "added"}}

DevState == {"absent", "linked", "added", "failed", "gone"}

ListInv ==
  /\ dev \in [Disks -> DevState]
  /\ order \in Seq(Disks)
  /\ flink \in Links /\ blink \in Links
  /\ haltedBy \subseteq Disks
  /\ Distinct(order)
  /\ ~halted => Ring(order, flink, blink) /\ Range(order) = Listed
  /\ HaltsAfterFailedAdd

-----------------------------------------------------------------------------
(* Types *)

Held  == {"file", "map"}          \* released by a detach
Items == {"popItem", "syncItem"}  \* forgotten by a detach

(* The objects of field f.                                                   *)
Numbered(f) == {f} \X (1 .. MaxLive)
Objects     == UNION {Numbered(f) : f \in Field}

Calls ==
  [op    : {"none", "attach", "undo", "detach", "flush", "cleanup"},
   named : Disks,
   pc    : {"idle", "dispatch", "alloc", "flush", "release", "clear"},
   k     : 0 .. 5,
   todo  : Seq(Field)]

TypeInv ==
  /\ call \in [Actors -> Calls]
  /\ \A t \in Actors :
       /\ call[t].pc = "idle" => call[t] = IdleCall
       /\ call[t].pc \in {"dispatch", "alloc"} => call[t].k \in 1 .. 5
       /\ call[t].pc = "clear" => call[t].todo # <<>>
  /\ ctx \in [Field -> Objects \cup {None}]
  /\ \A f \in Field : ctx[f] \in Numbered(f) \cup {None}
  /\ live \subseteq Objects /\ IsFiniteSet(live)
  /\ partOf \in Disks
  /\ active \in BOOLEAN /\ overlapped \in BOOLEAN /\ detaches \in Nat

-----------------------------------------------------------------------------
(* Whose partition it is *)

(* d is Disk itself, or comes after it in s, as far as both are in it.       *)
Younger(s, d) ==
  {Disk, d} \subseteq Range(s) /\ d # Disk =>
    \E i, j \in 1 .. Len(s) : i < j /\ s[i] = Disk /\ s[j] = d

OwnersInv ==
  /\ Younger(order, partOf)
  /\ \A t \in Actors : Younger(order, call[t].named)
  /\ dev[Disk] = "absent" =>
       partOf = Disk /\ ~active /\ \A t \in Actors : call[t] = IdleCall

-----------------------------------------------------------------------------
(* What a call accounts for *)

Todo(c) == Range(c.todo)

(* c has released the object of f and not cleared the pointer yet.           *)
Freeing(c, f) == c.pc = "clear" /\ f = Head(c.todo)

(* By the state c of the only call, f is held for the context.               *)
Holds(c, f) ==
  CASE c.pc = "alloc" -> \E j \in 1 .. 4 : j < c.k /\ f = Fields[j]
    [] c.pc \in {"release", "clear"} ->
         \/ f \in Todo(c) /\ ~Freeing(c, f)
         \/ c.op = "detach" /\ f \in Items
    [] OTHER -> active

CallShape(c) ==
  /\ c.todo \in Seq(Field) /\ Distinct(c.todo)
  /\ \/ c.pc = "idle"     /\ c.op = "none"
     \/ c.pc = "dispatch" /\ c.op \in {"attach", "detach", "flush"} /\ c.k = 1
     \/ c.pc = "alloc"    /\ c.op = "attach" /\ c.k \in 1 .. 5 /\ ~active
     \/ c.pc = "flush"    /\ c.op \in {"detach", "flush"} /\ active
     \/ c.pc = "flush"    /\ c.op = "cleanup" /\ c.todo = <<"map", "file", "popItem", "syncItem">>
     \/ /\ c.pc \in {"release", "clear"}
        /\ c.op \in {"undo", "detach", "cleanup"}
        /\ c.op = "undo" => ~active
        /\ c.op = "detach" => active /\ Todo(c) \subseteq Held
        /\ c.pc = "clear" => c.todo # <<>>

(* Every pointer that is not null is to an object that is allocated.         *)
Pointers(c) ==
  \A f \in Field :
    IF Freeing(c, f) THEN ctx[f] # None /\ ctx[f] \notin live
                     ELSE ctx[f] # None => ctx[f] \in live

(* The call or the context holds f exactly if a file or a map is allocated,  *)
(* and the items are that one and those that detaches have forgotten.        *)
Accounts(c) ==
  c.op # "cleanup" /\ dev[Disk] # "gone" =>
    /\ \A f \in Held  : Holds(c, f) <=> ctx[f] \in live
    /\ \A f \in Items :
         /\ Holds(c, f) => ctx[f] \in live
         /\ Cardinality(Of(f)) = detaches + (IF Holds(c, f) THEN 1 ELSE 0)

(* Nothing of a context that is gone is left but what its cleanup has yet to *)
(* release.                                                                  *)
Remains(c) ==
  /\ dev[Disk] = "gone" => c.op \in {"none", "cleanup"}
  /\ c.op = "cleanup" /\ ~halted => dev[Disk] = "gone"
  /\ \/ c.pc \in {"release", "clear"} /\ c.op = "cleanup"
     \/ c.pc = "idle" /\ dev[Disk] = "gone"
     => \A f \in Field : f \notin Todo(c) => ctx[f] = None

CallInv(c) ==
  CallShape(c) /\ Pointers(c) /\ Accounts(c) /\ Remains(c)

(* No call but that of t is in progress.                                     *)
Alone(t) == \A s \in Actors \ {t} : call[s] = IdleCall

(* As long as no two calls have overlapped: nothing of a partition or a map  *)
(* is forgotten, and one call at most is in progress, which accounts for all.*)
ResourceInv ==
  ~overlapped =>
    /\ \A f \in Held : Of(f) \subseteq {ctx[f]}
    /\ \E t \in Actors : Alone(t) /\ CallInv(call[t])

IndInv == ListInv /\ TypeInv /\ OwnersInv /\ ResourceInv

-----------------------------------------------------------------------------
(* Sequences without duplicates *)

LEMMA RangeIs ==
  ASSUME NEW S, NEW s \in Seq(S)
  PROVE  /\ Range(s) = {s[i] : i \in 1 .. Len(s)}
         /\ Range(s) \subseteq S
         /\ \A i \in 1 .. Len(s) : s[i] \in Range(s)
         /\ \A d \in Range(s) : \E i \in 1 .. Len(s) : s[i] = d
BY DEF Range

(* Without takes out the one place of d, and shifts those after it.          *)
LEMMA WithoutAt ==
  ASSUME NEW S, NEW s \in Seq(S), Distinct(s), NEW i \in 1 .. Len(s)
  PROVE  /\ Without(s, s[i]) \in Seq(S)
         /\ Len(Without(s, s[i])) = Len(s) - 1
         /\ \A k \in 1 .. (Len(s) - 1) :
              Without(s, s[i])[k] = IF k < i THEN s[k] ELSE s[k + 1]
<1>1. DOMAIN s = 1 .. Len(s) /\ s[i] \in Range(s)
  BY RangeIs
<1>2. (CHOOSE j \in DOMAIN s : s[j] = s[i]) = i
  BY <1>1 DEF Distinct
<1>3. Without(s, s[i]) = SubSeq(s, 1, i - 1) \o SubSeq(s, i + 1, Len(s))
  BY <1>1, <1>2 DEF Without, RemoveAt
<1> DEFINE a == SubSeq(s, 1, i - 1)
           b == SubSeq(s, i + 1, Len(s))
<1>4. /\ a \in Seq(S) /\ Len(a) = i - 1
      /\ \A k \in 1 .. (i - 1) : a[k] = s[k]
  <2>1. \A k \in 1 .. (i - 1) : s[k] \in S
    OBVIOUS
  <2> QED  BY <2>1, SubSeqProperties
<1>5. /\ b \in Seq(S) /\ Len(b) = Len(s) - i
      /\ \A k \in 1 .. (Len(s) - i) : b[k] = s[i + k]
  <2>1. /\ i + 1 \in Int /\ Len(s) \in Int
        /\ \A k \in (i + 1) .. Len(s) : s[k] \in S
    OBVIOUS
  <2>2. b \in Seq(S)
    BY <2>1, SubSeqProperties
  <2>3. Len(b) = IF i + 1 <= Len(s) THEN Len(s) - (i + 1) + 1 ELSE 0
    BY <2>1, SubSeqProperties
  <2>4. \A k \in 1 .. (Len(s) - (i + 1) + 1) : b[k] = s[(i + 1) + k - 1]
    BY <2>1, SubSeqProperties
  <2> HIDE DEF b
  <2>5. PICK m \in Nat : m = Len(s) /\ i \in 1 .. m
    OBVIOUS
  <2>6. Len(b) = m - i
    BY <2>3, <2>5
  <2>7. ASSUME NEW k \in 1 .. (m - i)
        PROVE  b[k] = s[i + k]
    <3>1. k \in 1 .. (Len(s) - (i + 1) + 1) /\ (i + 1) + k - 1 = i + k
      BY <2>5
    <3> QED  BY <2>4, <3>1
  <2> QED  BY <2>2, <2>5, <2>6, <2>7
<1> HIDE DEF a, b
<1> DEFINE n == Len(s)
           ab == a \o b
<1>6. /\ ab \in Seq(S) /\ Len(ab) = Len(a) + Len(b)
      /\ \A k \in 1 .. (Len(a) + Len(b)) :
           ab[k] = IF k <= Len(a) THEN a[k] ELSE b[k - Len(a)]
  BY <1>4, <1>5, ConcatProperties
<1>n. n \in Nat /\ Len(s) = n /\ i \in 1 .. n
  OBVIOUS
<1> HIDE DEF ab, n
<1>7. ASSUME NEW k \in 1 .. (n - 1)
      PROVE  ab[k] = IF k < i THEN s[k] ELSE s[k + 1]
  <2>1. ab[k] = IF k <= i - 1 THEN a[k] ELSE b[k - (i - 1)]
    BY <1>4, <1>5, <1>6, <1>n
  <2>2. CASE k < i
    BY <1>4, <1>n, <2>1, <2>2
  <2>3. CASE k >= i
    <3>1. k - (i - 1) \in 1 .. (n - i) /\ i + (k - (i - 1)) = k + 1
      BY <1>n, <2>3
    <3> QED  BY <1>5, <1>n, <2>1, <2>3, <3>1
  <2> QED  BY <1>n, <2>2, <2>3
<1>8. Without(s, s[i]) = ab
  BY <1>3 DEF a, b, ab
<1>9. Len(ab) = n - 1
  BY <1>4, <1>5, <1>6, <1>n
<1> QED  BY <1>6, <1>7, <1>8, <1>9, <1>n

(* It loses d and nothing else, and keeps the order of the others.           *)
LEMMA WithoutOne ==
  ASSUME NEW S, NEW s \in Seq(S), Distinct(s), NEW d
  PROVE  /\ Without(s, d) \in Seq(S)
         /\ Distinct(Without(s, d))
         /\ Range(Without(s, d)) = Range(s) \ {d}
         /\ \A i, j \in 1 .. Len(s) :
              i < j /\ s[i] # d /\ s[j] # d =>
                \E p, q \in 1 .. Len(Without(s, d)) :
                  p < q /\ Without(s, d)[p] = s[i] /\ Without(s, d)[q] = s[j]
<1> DEFINE w == Without(s, d)
<1>1. CASE d \notin Range(s)
  BY <1>1 DEF Without
<1>2. CASE d \in Range(s)
  <2>1. PICK x \in 1 .. Len(s) : s[x] = d
    BY <1>2, RangeIs
  <2>2. /\ w \in Seq(S) /\ Len(w) = Len(s) - 1
        /\ \A k \in 1 .. (Len(s) - 1) : w[k] = IF k < x THEN s[k] ELSE s[k + 1]
    BY <2>1, WithoutAt
  <2> HIDE DEF w
  <2>n. Len(s) \in Nat /\ Len(w) = Len(s) - 1 /\ x \in 1 .. Len(s)
    BY <2>1, <2>2
  <2>w. ASSUME NEW k \in 1 .. Len(w)
        PROVE  \E j \in 1 .. Len(s) :
                 w[k] = s[j] /\ j # x /\ j = IF k < x THEN k ELSE k + 1
    <3>1. k \in 1 .. (Len(s) - 1)
      BY <2>n
    <3>2. w[k] = IF k < x THEN s[k] ELSE s[k + 1]
      BY <2>2, <3>1
    <3>3. CASE k < x
      BY <2>n, <3>1, <3>2, <3>3
    <3>4. CASE ~(k < x)
      BY <2>n, <3>1, <3>2, <3>4
    <3> QED  BY <3>3, <3>4
  <2>3. Distinct(w)
    <3>1. SUFFICES ASSUME NEW k \in 1 .. Len(w), NEW l \in 1 .. Len(w), w[k] = w[l]
                   PROVE  k = l
      BY DEF Distinct
    <3>2. PICK j \in 1 .. Len(s) :
            w[k] = s[j] /\ j # x /\ j = IF k < x THEN k ELSE k + 1
      BY <2>w
    <3>3. PICK m \in 1 .. Len(s) :
            w[l] = s[m] /\ m # x /\ m = IF l < x THEN l ELSE l + 1
      BY <2>w
    <3>4. j = m
      BY <3>1, <3>2, <3>3 DEF Distinct
    <3> QED  BY <2>n, <3>2, <3>3, <3>4
  <2>4. Range(w) = Range(s) \ {d}
    <3>1. ASSUME NEW k \in 1 .. Len(w) PROVE w[k] \in Range(s) \ {d}
      <4>1. PICK j \in 1 .. Len(s) : w[k] = s[j] /\ j # x
        BY <2>w
      <4>2. s[j] # d
        BY <2>1, <4>1 DEF Distinct
      <4> QED  BY <4>1, <4>2, RangeIs
    <3>2. ASSUME NEW j \in 1 .. Len(s), j # x
          PROVE  s[j] \in Range(w)
      <4>1. CASE j < x
        BY <2>2, <3>2, <4>1, RangeIs
      <4>2. CASE j > x
        <5>1. j - 1 \in 1 .. Len(w) /\ w[j - 1] = s[j]
          BY <2>2, <3>2, <4>2
        <5> QED  BY <2>2, <5>1, RangeIs
      <4> QED  BY <3>2, <4>1, <4>2
    <3>3. Range(w) \subseteq Range(s) \ {d}
      BY <2>2, <3>1, RangeIs
    <3>4. Range(s) \ {d} \subseteq Range(w)
      BY <2>1, <3>2, RangeIs
    <3> QED  BY <3>3, <3>4
  <2>5. ASSUME NEW i \in 1 .. Len(s), NEW j \in 1 .. Len(s),
               i < j, s[i] # d, s[j] # d
        PROVE  \E p, q \in 1 .. Len(w) : p < q /\ w[p] = s[i] /\ w[q] = s[j]
    <3>1. i # x /\ j # x
      BY <2>1, <2>5
    <3> DEFINE p == IF i < x THEN i ELSE i - 1
               q == IF j < x THEN j ELSE j - 1
    <3>2. p \in 1 .. Len(w) /\ q \in 1 .. Len(w) /\ p < q
      BY <2>2, <2>5, <3>1
    <3>3. w[p] = s[i] /\ w[q] = s[j]
      BY <2>2, <2>5, <3>1
    <3> QED  BY <3>2, <3>3
  <2> QED  BY <2>2, <2>3, <2>4, <2>5 DEF w
<1> QED  BY <1>1, <1>2

LEMMA AppendOne ==
  ASSUME NEW S, NEW s \in Seq(S), Distinct(s), NEW d \in S, d \notin Range(s)
  PROVE  /\ Append(s, d) \in Seq(S)
         /\ Distinct(Append(s, d))
         /\ Range(Append(s, d)) = Range(s) \cup {d}
<1> DEFINE w == Append(s, d)
<1>1. /\ w \in Seq(S) /\ Len(w) = Len(s) + 1 /\ w[Len(s) + 1] = d
      /\ \A k \in 1 .. Len(s) : w[k] = s[k]
  OBVIOUS
<1> HIDE DEF w
<1>2. \A k \in 1 .. Len(s) : s[k] # d
  BY RangeIs
<1>3. Distinct(w)
  BY <1>1, <1>2 DEF Distinct
<1>4. Range(w) = Range(s) \cup {d}
  <2>1. \A k \in 1 .. Len(s) : w[k] \in Range(w)
    BY <1>1, RangeIs
  <2>2. d \in Range(w)
    BY <1>1, RangeIs
  <2>3. \A k \in 1 .. Len(w) : w[k] \in Range(s) \cup {d}
    BY <1>1, RangeIs
  <2>4. Range(s) \cup {d} \subseteq Range(w)
    <3>1. \A e \in Range(s) : \E k \in 1 .. Len(s) : s[k] = e
      BY RangeIs
    <3> QED  BY <1>1, <2>1, <2>2, <3>1
  <2>5. Range(w) \subseteq Range(s) \cup {d}
    <3>1. \A e \in Range(w) : \E k \in 1 .. Len(w) : w[k] = e
      BY <1>1, RangeIs
    <3> QED  BY <2>3, <3>1
  <2> QED  BY <2>4, <2>5
<1> QED  BY <1>1, <1>3, <1>4 DEF w

-----------------------------------------------------------------------------
(* Rings *)

(* Of the places 0 .. Len(s), and of 1 .. Len(s) + 1, no two are one node.   *)
LEMMA RingPlaces ==
  ASSUME NEW s \in Seq(Disks), Distinct(s)
  PROVE  /\ Len(s) \in Nat
         /\ \A k \in Int : RingAt(s, k) \in Nodes
         /\ \A k \in Int : RingAt(s, k) # ListHead <=> k \in 1 .. Len(s)
         /\ \A j, k \in 0 .. Len(s) : RingAt(s, j) = RingAt(s, k) => j = k
         /\ \A j, k \in 1 .. (Len(s) + 1) : RingAt(s, j) = RingAt(s, k) => j = k
<1>1. Len(s) \in Nat /\ \A k \in 1 .. Len(s) : s[k] \in Disks
  OBVIOUS
<1>2. \A k \in 1 .. Len(s) : s[k] # ListHead
  BY <1>1, HeadAssumption
<1> QED  BY <1>1, <1>2 DEF RingAt, Nodes, Distinct

(* A node off the ring is not reached from it.                               *)
LEMMA RingOff ==
  ASSUME NEW s \in Seq(Disks), NEW d \in Disks, d \notin Range(s)
  PROVE  \A k \in Int : RingAt(s, k) # d
<1>1. \A k \in 1 .. Len(s) : s[k] # d
  BY RangeIs
<1> QED  BY <1>1, HeadAssumption DEF RingAt

(* InsertTailList keeps the ring and its check passes.                       *)
LEMMA RingAppend ==
  ASSUME NEW s \in Seq(Disks), Distinct(s), NEW fl \in Links, NEW bl \in Links,
         Ring(s, fl, bl), NEW d \in Disks, d \notin Range(s)
  PROVE  /\ fl[bl[ListHead]] = ListHead
         /\ Ring(Append(s, d),
                 [fl EXCEPT ![d] = ListHead, ![bl[ListHead]] = d],
                 [bl EXCEPT ![d] = bl[ListHead], ![ListHead] = d])
<1> DEFINE n == Len(s)
           w == Append(s, d)
           last == RingAt(s, n)
           f == [fl EXCEPT ![d] = ListHead, ![bl[ListHead]] = d]
           b == [bl EXCEPT ![d] = bl[ListHead], ![ListHead] = d]
<1>1. /\ n \in Nat /\ Len(w) = n + 1
      /\ \A k \in 0 .. n : RingAt(w, k) = RingAt(s, k)
      /\ RingAt(w, n + 1) = d /\ RingAt(w, n + 2) = ListHead
      /\ RingAt(s, n + 1) = ListHead
  BY DEF RingAt
<1>2. bl[ListHead] = last /\ fl[last] = ListHead
  BY <1>1 DEF Ring
<1>3. /\ d \in Nodes /\ ListHead \in Nodes /\ last \in Nodes
      /\ d # ListHead /\ d # last
      /\ \A k \in 0 .. n : RingAt(s, k) \in Nodes /\ RingAt(s, k) # d
  BY <1>1, RingPlaces, RingOff, HeadAssumption DEF Nodes
<1>4. \A k \in 0 .. (n - 1) : RingAt(s, k) # last /\ RingAt(s, k + 1) # ListHead
  BY <1>1, RingPlaces
<1>5. /\ f[d] = ListHead /\ f[last] = d
      /\ \A x \in Nodes \ {d, last} : f[x] = fl[x]
      /\ b[d] = last /\ b[ListHead] = d
      /\ \A x \in Nodes \ {d, ListHead} : b[x] = bl[x]
  BY <1>2, <1>3 DEF Links
<1> HIDE DEF f, b, w, n, last
<1>6. ASSUME NEW k \in 0 .. (n + 1)
      PROVE  f[RingAt(w, k)] = RingAt(w, k + 1) /\ b[RingAt(w, k + 1)] = RingAt(w, k)
  <2>1. CASE k \in 0 .. (n - 1)
    <3>1. fl[RingAt(s, k)] = RingAt(s, k + 1) /\ bl[RingAt(s, k + 1)] = RingAt(s, k)
      BY <1>1, <2>1 DEF Ring, n
    <3>2. /\ RingAt(w, k) = RingAt(s, k) /\ RingAt(w, k + 1) = RingAt(s, k + 1)
          /\ RingAt(s, k) \in Nodes \ {d, last}
          /\ RingAt(s, k + 1) \in Nodes \ {d, ListHead}
      BY <1>1, <1>3, <1>4, <2>1
    <3> QED  BY <1>5, <3>1, <3>2
  <2>2. CASE k = n
    BY <1>1, <1>5, <2>2 DEF last
  <2>3. CASE k = n + 1
    BY <1>1, <1>5, <2>3
  <2> QED  BY <1>1, <2>1, <2>2, <2>3
<1>7. Ring(w, f, b)
  BY <1>1, <1>6 DEF Ring
<1> QED  BY <1>2, <1>7 DEF w, f, b

(* RemoveEntryList of an entry on the ring passes its check and keeps the    *)
(* ring of the others.                                                       *)
LEMMA RingRemove ==
  ASSUME NEW s \in Seq(Disks), Distinct(s), NEW fl \in Links, NEW bl \in Links,
         Ring(s, fl, bl), NEW d \in Range(s)
  PROVE  /\ fl[bl[d]] = d /\ bl[fl[d]] = d /\ fl[d] # d
         /\ Ring(Without(s, d), [fl EXCEPT ![bl[d]] = fl[d]],
                                [bl EXCEPT ![fl[d]] = bl[d]])
<1>1. PICK i \in 1 .. Len(s) : s[i] = d
  BY RangeIs
<1> DEFINE n == Len(s)
           w == Without(s, d)
           prev == RingAt(s, i - 1)
           succ == RingAt(s, i + 1)
           f == [fl EXCEPT ![bl[d]] = fl[d]]
           b == [bl EXCEPT ![fl[d]] = bl[d]]
<1>2. n \in Nat /\ i \in 1 .. n /\ RingAt(s, i) = d
  BY <1>1 DEF RingAt
<1>3. /\ Len(w) = n - 1
      /\ \A k \in 1 .. (n - 1) : w[k] = IF k < i THEN s[k] ELSE s[k + 1]
  BY <1>1, WithoutAt
<1> HIDE DEF w
<1>4. \A k \in 0 .. n : RingAt(w, k) = IF k < i THEN RingAt(s, k) ELSE RingAt(s, k + 1)
  BY <1>2, <1>3 DEF RingAt
<1>5. /\ fl[prev] = d /\ bl[d] = prev
      /\ fl[d] = succ /\ bl[succ] = d
  <2>1. i - 1 \in 0 .. n /\ i \in 0 .. n /\ (i - 1) + 1 = i
    BY <1>2
  <2> QED  BY <1>2, <2>1 DEF Ring
<1>6. prev \in Nodes /\ succ \in Nodes /\ d # succ
  BY <1>2, RingPlaces
<1>7. /\ f[prev] = succ /\ b[succ] = prev
      /\ \A x \in Nodes \ {prev} : f[x] = fl[x]
      /\ \A x \in Nodes \ {succ} : b[x] = bl[x]
  BY <1>5, <1>6 DEF Links
<1> HIDE DEF f, b, n
<1>8. ASSUME NEW j \in 0 .. n, j # i - 1, j # i
      PROVE  f[RingAt(s, j)] = RingAt(s, j + 1) /\ b[RingAt(s, j + 1)] = RingAt(s, j)
  <2>1. fl[RingAt(s, j)] = RingAt(s, j + 1) /\ bl[RingAt(s, j + 1)] = RingAt(s, j)
    BY <1>8 DEF Ring, n
  <2>2. /\ RingAt(s, j) \in Nodes /\ RingAt(s, j) # prev
        /\ RingAt(s, j + 1) \in Nodes /\ RingAt(s, j + 1) # succ
    BY <1>2, <1>8, RingPlaces DEF n
  <2> QED  BY <1>7, <2>1, <2>2
<1> HIDE DEF prev, succ
<1>9. ASSUME NEW k \in 0 .. (n - 1)
      PROVE  f[RingAt(w, k)] = RingAt(w, k + 1) /\ b[RingAt(w, k + 1)] = RingAt(w, k)
  <2>1. CASE k < i - 1
    <3>1. RingAt(w, k) = RingAt(s, k) /\ RingAt(w, k + 1) = RingAt(s, k + 1)
      BY <1>2, <1>4, <2>1
    <3> QED  BY <1>2, <1>8, <2>1, <3>1
  <2>2. CASE k = i - 1
    <3>1. RingAt(w, k) = prev /\ RingAt(w, k + 1) = succ
      BY <1>2, <1>4, <2>2 DEF prev, succ
    <3> QED  BY <1>7, <3>1
  <2>3. CASE k > i - 1
    <3>1. RingAt(w, k) = RingAt(s, k + 1) /\ RingAt(w, k + 1) = RingAt(s, (k + 1) + 1)
      BY <1>2, <1>4, <2>3
    <3>2. k + 1 \in 0 .. n /\ k + 1 # i - 1 /\ k + 1 # i
      BY <1>2, <2>3
    <3> QED  BY <1>8, <3>1, <3>2
  <2> QED  BY <1>2, <2>1, <2>2, <2>3
<1>10. Ring(w, f, b)
  BY <1>2, <1>3, <1>9 DEF Ring
<1> QED  BY <1>5, <1>6, <1>10 DEF w, f, b

(* That of an entry off the ring either fails its check or concerns entries  *)
(* off the ring only.                                                        *)
LEMMA RingSpared ==
  ASSUME NEW s \in Seq(Disks), Distinct(s), NEW fl \in Links, NEW bl \in Links,
         Ring(s, fl, bl), NEW d \in Disks, d \notin Range(s),
         fl[bl[d]] = d, bl[fl[d]] = d
  PROVE  Ring(s, [fl EXCEPT ![bl[d]] = fl[d]], [bl EXCEPT ![fl[d]] = bl[d]])
<1> DEFINE n == Len(s)
           f == [fl EXCEPT ![bl[d]] = fl[d]]
           b == [bl EXCEPT ![fl[d]] = bl[d]]
<1>1. n \in Nat
  OBVIOUS
<1>2. d \in Nodes /\ bl[d] \in Nodes /\ fl[d] \in Nodes
  BY DEF Nodes, Links
<1>3. /\ \A x \in Nodes \ {bl[d]} : f[x] = fl[x]
      /\ \A x \in Nodes \ {fl[d]} : b[x] = bl[x]
  BY <1>2 DEF Links
<1> HIDE DEF f, b, n
<1>4. ASSUME NEW k \in 0 .. n
      PROVE  f[RingAt(s, k)] = RingAt(s, k + 1) /\ b[RingAt(s, k + 1)] = RingAt(s, k)
  <2>1. fl[RingAt(s, k)] = RingAt(s, k + 1) /\ bl[RingAt(s, k + 1)] = RingAt(s, k)
    BY DEF Ring, n
  <2>2. /\ RingAt(s, k) # d /\ RingAt(s, k + 1) # d
        /\ RingAt(s, k) \in Nodes /\ RingAt(s, k + 1) \in Nodes
    BY <1>1, RingOff, RingPlaces
  <2>3. RingAt(s, k) # bl[d] /\ RingAt(s, k + 1) # fl[d]
    BY <2>1, <2>2
  <2> QED  BY <1>3, <2>1, <2>2, <2>3
<1>5. Ring(s, f, b)
  BY <1>4 DEF Ring, n
<1> QED  BY <1>5 DEF f, b

-----------------------------------------------------------------------------
(* The list *)

LEMMA ListInit == ASSUME DInit PROVE ListInv
<1>1. /\ order \in Seq(Disks) /\ Len(order) = 0 /\ Distinct(order)
      /\ Range(order) = {}
  BY DEF DInit, Distinct, Range
<1>2. Ring(order, flink, blink)
  BY <1>1 DEF DInit, Ring, RingAt, Nodes
<1> QED
  BY <1>1, <1>2
  DEF DInit, ListInv, DevState, Links, Nodes, Listed, HaltsAfterFailedAdd, halted

LEMMA AddLinkKeeps ==
  ASSUME ListInv, ~halted, NEW d \in Disks, AddLink(d)
  PROVE  ListInv'
<1>1. d \notin Range(order)
  BY DEF ListInv, AddLink, Listed
<1>2. /\ flink[blink[ListHead]] = ListHead
      /\ Ring(order', flink', blink')
  BY <1>1, RingAppend DEF ListInv, AddLink
<1>3. /\ order' \in Seq(Disks) /\ Distinct(order')
      /\ Range(order') = Range(order) \cup {d}
  BY <1>1, AppendOne DEF ListInv, AddLink
<1>4. Listed' = Listed \cup {d} /\ dev' \in [Disks -> DevState]
  BY DEF ListInv, AddLink, Listed, DevState
<1>5. flink' \in Links /\ blink' \in Links /\ haltedBy' = {}
  BY <1>2 DEF ListInv, AddLink, Links, Nodes
<1> QED
  BY <1>2, <1>3, <1>4, <1>5 DEF ListInv, HaltsAfterFailedAdd

LEMMA AddDoneKeeps ==
  ASSUME ListInv, ~halted, NEW d \in Disks, AddDone(d)
  PROVE  ListInv'
BY DEF ListInv, AddDone, Listed, DevState, HaltsAfterFailedAdd, halted

(* The removal of an entry, whether it is on the list or not.                *)
LEMMA RemoveKeepsRing ==
  ASSUME ListInv, ~halted, NEW d \in Disks, RemoveEntryList(d)
  PROVE  /\ flink' \in Links /\ blink' \in Links /\ haltedBy' \in SUBSET {d}
         /\ d \in Range(order) => ~halted'
         /\ ~halted' => Ring(Without(order, d), flink', blink')
<1>1. /\ order \in Seq(Disks) /\ Distinct(order) /\ Ring(order, flink, blink)
      /\ flink \in Links /\ blink \in Links
  BY DEF ListInv
<1>2. flink' \in Links /\ blink' \in Links /\ haltedBy' \in SUBSET {d}
  BY <1>1 DEF RemoveEntryList, halted, Links, Nodes
<1>3. ASSUME d \in Range(order)
      PROVE  ~halted' /\ Ring(Without(order, d), flink', blink')
  <2>1. /\ flink[blink[d]] = d /\ blink[flink[d]] = d
        /\ Ring(Without(order, d), [flink EXCEPT ![blink[d]] = flink[d]],
                                   [blink EXCEPT ![flink[d]] = blink[d]])
    BY <1>1, <1>3, RingRemove
  <2> QED  BY <2>1 DEF RemoveEntryList, halted
<1>4. ASSUME d \notin Range(order), ~halted'
      PROVE  Ring(Without(order, d), flink', blink')
  <2>1. /\ flink[blink[d]] = d /\ blink[flink[d]] = d
        /\ flink' = [flink EXCEPT ![blink[d]] = flink[d]]
        /\ blink' = [blink EXCEPT ![flink[d]] = blink[d]]
    BY <1>4 DEF RemoveEntryList, halted
  <2>2. Ring(order, flink', blink')
    BY <1>1, <1>4, <2>1, RingSpared
  <2> QED  BY <1>4, <2>2 DEF Without
<1> QED  BY <1>2, <1>3, <1>4

LEMMA AddFailsKeeps ==
  ASSUME ListInv, ~halted, NEW d \in Disks, AddFails(d)
  PROVE  ListInv'
<1>1. d \in Range(order) /\ order \in Seq(Disks) /\ Distinct(order)
  BY DEF ListInv, AddFails, Listed
<1>2. /\ flink' \in Links /\ blink' \in Links /\ ~halted' /\ haltedBy' = {}
      /\ Ring(order', flink', blink')
  BY <1>1, RemoveKeepsRing DEF AddFails, halted
<1>3. /\ order' \in Seq(Disks) /\ Distinct(order')
      /\ Range(order') = Range(order) \ {d}
  BY <1>1, WithoutOne DEF AddFails
<1>4. Listed' = Listed \ {d} /\ dev' \in [Disks -> DevState]
  BY <1>2 DEF ListInv, AddFails, Listed, DevState
<1> QED
  BY <1>2, <1>3, <1>4 DEF ListInv, HaltsAfterFailedAdd

LEMMA WithdrawKeeps ==
  ASSUME ListInv, ~halted, NEW d \in Disks, NEW next \in {"absent", "gone"},
         Withdraw(d, next)
  PROVE  ListInv'
<1>1. /\ order \in Seq(Disks) /\ Distinct(order) /\ Ring(order, flink, blink)
      /\ flink \in Links /\ blink \in Links /\ Range(order) = Listed
      /\ dev \in [Disks -> DevState] /\ haltedBy = {}
  BY DEF ListInv, halted
<1>2. /\ flink' \in Links /\ blink' \in Links /\ haltedBy' \in SUBSET {d}
      /\ d \in Range(order) => ~halted'
      /\ ~halted' => Ring(order', flink', blink')
  <2>1. CASE flink[d] = d
    <3>1. d \notin Range(order)
      BY <1>1, <2>1, RingRemove
    <3>2. order' = order /\ UNCHANGED <<flink, blink, haltedBy>>
      BY <2>1, <3>1 DEF Withdraw, Without
    <3> QED  BY <1>1, <3>1, <3>2 DEF halted
  <2>2. CASE flink[d] # d
    BY <2>2, RemoveKeepsRing DEF Withdraw
  <2> QED  BY <2>1, <2>2
<1>3. /\ order' \in Seq(Disks) /\ Distinct(order')
      /\ Range(order') = Range(order) \ {d}
  BY <1>1, WithoutOne DEF Withdraw
<1>4. dev' \in [Disks -> DevState]
  BY <1>1 DEF Withdraw, DevState
<1>5. ~halted' => Listed' = Listed \ {d}
  BY <1>1 DEF Withdraw, Listed
<1>6. HaltsAfterFailedAdd'
  <2>1. halted' => dev' = dev /\ dev[d] = "failed"
    BY <1>1, <1>2 DEF Withdraw, Listed
  <2> QED  BY <1>2, <2>1 DEF HaltsAfterFailedAdd, halted
<1> QED  BY <1>1, <1>2, <1>3, <1>4, <1>5, <1>6 DEF ListInv

LEMMA ListNext ==
  ASSUME ListInv, [Next]_vars
  PROVE  ListInv'
<1>1. CASE UNCHANGED dvars
  BY <1>1 DEF ListInv, dvars, Listed, HaltsAfterFailedAdd, halted
<1>2. CASE Cleanup /\ ~halted
  BY <1>2, WithdrawKeeps, DiskAssumption DEF Cleanup
<1>3. ASSUME NEW d \in Disks, AddStep(d), ~halted
      PROVE  ListInv'
  BY <1>3, AddLinkKeeps, AddDoneKeeps, AddFailsKeeps DEF AddStep
<1>4. ASSUME NEW d \in Disks \ {Disk}, Withdraw(d, "absent"), ~halted
      PROVE  ListInv'
  BY <1>4, WithdrawKeeps
<1> QED  BY <1>1, <1>2, <1>3, <1>4 DEF Next, vars

(* The ring of ListInv is the one of the property.                           *)
LEMMA RingIsExact ==
  ASSUME ListInv
  PROVE  ListExact
<1> SUFFICES ASSUME ~halted PROVE ListExact
  BY DEF ListExact
<1> DEFINE n == Len(order)
           ring == <<ListHead>> \o order \o <<ListHead>>
<1>1. order \in Seq(Nodes) /\ <<ListHead>> \in Seq(Nodes) /\ n \in Nat
  BY DEF ListInv, Nodes
<1>2. /\ <<ListHead>> \o order \in Seq(Nodes)
      /\ Len(<<ListHead>> \o order) = n + 1
      /\ \A k \in 1 .. (n + 1) :
           (<<ListHead>> \o order)[k] = IF k <= 1 THEN ListHead ELSE order[k - 1]
  BY <1>1, ConcatProperties
<1>3. /\ Len(ring) = n + 2
      /\ \A k \in 1 .. (n + 2) :
           ring[k] = IF k <= n + 1 THEN (<<ListHead>> \o order)[k] ELSE ListHead
  BY <1>1, <1>2, ConcatProperties
<1>4. \A k \in 1 .. (n + 2) : ring[k] = RingAt(order, k - 1)
  BY <1>1, <1>2, <1>3 DEF RingAt
<1> HIDE DEF ring, n
<1>5. ASSUME NEW k \in 1 .. (n + 1)
      PROVE  flink[ring[k]] = ring[k + 1] /\ blink[ring[k + 1]] = ring[k]
  <2>1. /\ flink[RingAt(order, k - 1)] = RingAt(order, (k - 1) + 1)
        /\ blink[RingAt(order, (k - 1) + 1)] = RingAt(order, k - 1)
    BY <1>1 DEF ListInv, Ring, n
  <2> QED  BY <1>1, <1>4, <2>1
<1>6. \A k \in 1 .. (Len(ring) - 1) :
        flink[ring[k]] = ring[k + 1] /\ blink[ring[k + 1]] = ring[k]
  BY <1>1, <1>3, <1>5
<1> QED  BY <1>6 DEF ListExact, ring

-----------------------------------------------------------------------------
(* Fields and types *)

LEMMA FieldsAre ==
  /\ Len(Fields) = 4
  /\ Fields[1] = "file" /\ Fields[2] = "map"
  /\ Fields[3] = "popItem" /\ Fields[4] = "syncItem"
  /\ Field = {"file", "map", "popItem", "syncItem"}
  /\ Field = Held \cup Items
<1>1. /\ Len(Fields) = 4 /\ DOMAIN Fields = 1 .. 4
      /\ Fields[1] = "file" /\ Fields[2] = "map"
      /\ Fields[3] = "popItem" /\ Fields[4] = "syncItem"
  BY DEF Fields
<1>2. Field = {Fields[j] : j \in 1 .. 4}
  BY <1>1 DEF Field, Range
<1>3. Field = {"file", "map", "popItem", "syncItem"}
  BY <1>1, <1>2
<1> QED  BY <1>1, <1>3 DEF Held, Items

(* What was allocated before step k of an attach is undone, each once.       *)
LEMMA UndoneIs ==
  ASSUME NEW k \in 1 .. 4
  PROVE  /\ Undone(k) \in Seq(Field)
         /\ Distinct(Undone(k))
         /\ Range(Undone(k)) = {Fields[j] : j \in 1 .. (k - 1)}
<1> DEFINE a == SubSeq(Fields, 1, k - 1)
           u == Undone(k)
<1>1. \A i \in 1 .. (k - 1) : Fields[i] \in Field
  BY FieldsAre
<1>2. a \in Seq(Field) /\ Len(a) = k - 1 /\ \A i \in 1 .. (k - 1) : a[i] = Fields[i]
  BY <1>1, SubSeqProperties
<1>3. u = [i \in 1 .. Len(a) |-> a[(Len(a) - i) + 1]]
  BY DEF Undone, Reverse
<1> HIDE DEF a, u
<1>4. u \in [1 .. (k - 1) -> Field] /\ \A i \in 1 .. (k - 1) : u[i] = Fields[k - i]
  BY <1>1, <1>2, <1>3
<1>5. u \in Seq(Field) /\ Len(u) = k - 1
  BY <1>4
<1>6. Distinct(u)
  <2>1. \A i, j \in 1 .. 4 : Fields[i] = Fields[j] => i = j
    BY FieldsAre
  <2> QED  BY <1>4, <1>5, <2>1 DEF Distinct
<1>7. Range(u) = {Fields[j] : j \in 1 .. (k - 1)}
  <2>1. Range(u) = {u[i] : i \in 1 .. (k - 1)}
    BY <1>5, RangeIs
  <2>2. \A j \in 1 .. (k - 1) : k - j \in 1 .. (k - 1) /\ u[k - j] = Fields[j]
    BY <1>4
  <2>3. \A i \in 1 .. (k - 1) : k - i \in 1 .. (k - 1) /\ u[i] = Fields[k - i]
    BY <1>4
  <2> QED  BY <2>1, <2>2, <2>3
<1> QED  BY <1>5, <1>6, <1>7 DEF u

(* The lists of fields that detach and cleanup release.                      *)
LEMMA TodoLists ==
  /\ <<"map", "file">> \in Seq(Field) /\ Distinct(<<"map", "file">>)
  /\ Range(<<"map", "file">>) = Held
  /\ <<"map", "file", "popItem", "syncItem">> \in Seq(Field)
  /\ Distinct(<<"map", "file", "popItem", "syncItem">>)
  /\ Range(<<"map", "file", "popItem", "syncItem">>) = Field
  /\ <<>> \in Seq(Field) /\ Distinct(<<>>) /\ Range(<<>>) = {}
BY FieldsAre DEF Distinct, Range, Held

(* The first of a list is taken off it, and is not among the rest.           *)
LEMMA TailIs ==
  ASSUME NEW s \in Seq(Field), s # <<>>, Distinct(s)
  PROVE  /\ Head(s) \in Field /\ Head(s) \in Range(s)
         /\ Tail(s) \in Seq(Field) /\ Distinct(Tail(s))
         /\ Range(Tail(s)) = Range(s) \ {Head(s)}
<1> DEFINE n == Len(s)
           t == Tail(s)
<1>1. /\ n \in Nat \ {0} /\ Head(s) = s[1] /\ \A i \in 1 .. n : s[i] \in Field
      /\ t \in Seq(Field) /\ Len(t) = n - 1
      /\ \A i \in 1 .. (n - 1) : t[i] = s[i + 1]
  <2>1. n \in Nat \ {0} /\ \A i \in 1 .. n : s[i] \in Field
    BY EmptySeq
  <2>2. t \in Seq(Field) /\ Head(s) = s[1]
    BY HeadTailProperties
  <2>3. t = SubSeq(s, 2, n)
    BY TailIsSubSeq
  <2>4. \A i \in 2 .. n : s[i] \in Field
    BY <2>1
  <2> HIDE DEF t
  <2>5. /\ Len(SubSeq(s, 2, n)) = (IF 2 <= n THEN n - 2 + 1 ELSE 0)
        /\ \A i \in 1 .. (n - 2 + 1) : SubSeq(s, 2, n)[i] = s[2 + i - 1]
    <3> HIDE DEF n
    <3>1. 2 \in Int /\ n \in Int
      BY <2>1
    <3> QED  BY <2>4, <3>1, SubSeqProperties
  <2>6. /\ Len(t) = (IF 2 <= n THEN n - 2 + 1 ELSE 0)
        /\ \A i \in 1 .. (n - 2 + 1) : t[i] = s[2 + i - 1]
    BY <2>3, <2>5
  <2>7. n - 2 + 1 = n - 1 /\ \A i \in 1 .. (n - 1) : 2 + i - 1 = i + 1
    BY <2>1
  <2> HIDE DEF n
  <2> QED  BY <2>1, <2>2, <2>6, <2>7
<1> HIDE DEF t
<1>2. /\ Range(s) = {s[i] : i \in 1 .. n}
      /\ Range(t) = {t[i] : i \in 1 .. (n - 1)}
  <2>1. Range(s) = {s[i] : i \in 1 .. n}
    BY RangeIs
  <2>2. Range(t) = {t[i] : i \in 1 .. Len(t)}
    BY <1>1, RangeIs
  <2> QED  BY <1>1, <2>1, <2>2
<1> HIDE DEF n
<1>3. \A i \in 2 .. n : i - 1 \in 1 .. (n - 1) /\ t[i - 1] = s[i]
  BY <1>1
<1>4. \A i, j \in 1 .. n : s[i] = s[j] => i = j
  BY DEF Distinct, n
<1>5. Distinct(t)
  BY <1>1, <1>4 DEF Distinct
<1>6. Range(t) = Range(s) \ {Head(s)}
  <2>1. ASSUME NEW e \in Range(t)
        PROVE  e \in Range(s) \ {Head(s)}
    <3>1. PICK i \in 1 .. (n - 1) : e = t[i]
      BY <1>2
    <3>2. i + 1 \in 1 .. n /\ i + 1 # 1 /\ 1 \in 1 .. n /\ e = s[i + 1]
      BY <1>1, <3>1
    <3>3. s[i + 1] # s[1]
      BY <1>4, <3>2
    <3> QED  BY <1>1, <1>2, <3>2, <3>3
  <2>2. ASSUME NEW e \in Range(s), e # Head(s)
        PROVE  e \in Range(t)
    <3>1. PICK i \in 1 .. n : e = s[i]
      BY <1>2
    <3>2. i \in 2 .. n
      BY <1>1, <2>2, <3>1
    <3> QED  BY <1>2, <1>3, <3>1, <3>2
  <2> QED  BY <2>1, <2>2
<1>7. Head(s) \in Field /\ Head(s) \in Range(s)
  BY <1>1, <1>2
<1> QED  BY <1>1, <1>5, <1>6, <1>7 DEF t

(* An object belongs to one field.                                           *)
LEMMA ObjectsAre ==
  /\ \A f \in Field : Numbered(f) \subseteq Objects
  /\ \A f \in Field : \A o \in Numbered(f) : o[1] = f
  /\ \A f, g \in Field : f # g => Numbered(f) \cap Numbered(g) = {}
  /\ None \notin Objects
<1>1. \A f \in Field : \A o \in Numbered(f) : o[1] = f
  BY DEF Numbered
<1>2. None[1] = "none" /\ "none" \notin Field
  BY FieldsAre DEF None
<1> QED  BY <1>1, <1>2 DEF Objects

LEMMA OfIs ==
  ASSUME live \subseteq Objects, NEW f \in Field
  PROVE  Of(f) = live \cap Numbered(f)
BY ObjectsAre DEF Of, Objects

-----------------------------------------------------------------------------
(* Type correctness *)

(* What an actor's step does to its own state is enough for all of them.     *)
CallTyped(c) ==
  /\ c \in Calls
  /\ c.pc = "idle" => c = IdleCall
  /\ c.pc \in {"dispatch", "alloc"} => c.k \in 1 .. 5
  /\ c.pc = "clear" => c.todo # <<>>

LEMMA OneCallTyped ==
  ASSUME TypeInv, NEW t \in Actors, NEW c, CallTyped(c),
         call' = [call EXCEPT ![t] = c]
  PROVE  /\ call' \in [Actors -> Calls]
         /\ \A s \in Actors :
              /\ call'[s].pc = "idle" => call'[s] = IdleCall
              /\ call'[s].pc \in {"dispatch", "alloc"} => call'[s].k \in 1 .. 5
              /\ call'[s].pc = "clear" => call'[s].todo # <<>>
<1>1. call \in [Actors -> Calls] /\ c \in Calls
  BY DEF TypeInv, CallTyped
<1>2. call' \in [Actors -> Calls] /\ call'[t] = c /\ \A s \in Actors \ {t} : call'[s] = call[s]
  BY <1>1
<1> QED  BY <1>2 DEF TypeInv, CallTyped

LEMMA IdleTyped == CallTyped(IdleCall)
BY TodoLists, DiskAssumption DEF CallTyped, Calls, IdleCall

LEMMA EnterTyped ==
  ASSUME TypeInv, NEW t \in Actors, NEW op \in {"attach", "detach", "flush", "cleanup"},
         NEW named \in Disks, NEW pc \in {"dispatch", "flush", "release"},
         NEW todo \in Seq(Field), Enter(t, op, named, pc, todo)
  PROVE  /\ call' \in [Actors -> Calls] /\ overlapped' \in BOOLEAN
         /\ \A s \in Actors :
              /\ call'[s].pc = "idle" => call'[s] = IdleCall
              /\ call'[s].pc \in {"dispatch", "alloc"} => call'[s].k \in 1 .. 5
              /\ call'[s].pc = "clear" => call'[s].todo # <<>>
<1> DEFINE c == [op |-> op, named |-> named, pc |-> pc, k |-> 1, todo |-> todo]
<1>1. CallTyped(c)
  BY DEF CallTyped, Calls
<1>2. call' = [call EXCEPT ![t] = c]
  BY DEF Enter
<1>3. overlapped' \in BOOLEAN
  BY DEF Enter, TypeInv
<1> HIDE DEF c
<1> QED  BY <1>1, <1>2, <1>3, OneCallTyped

LEMMA TypeInit == ASSUME Init PROVE TypeInv
BY IdleTyped, FS_EmptySet, DiskAssumption
DEF Init, TypeInv, CallTyped, IdleCall, Objects

(* A step of a call that leaves the objects alone.                           *)
LEMMA QuietCallTyped ==
  ASSUME TypeInv, NEW t \in Actors,
         \/ Refuse(t) \/ AttachBegin(t) \/ Activate(t) \/ ToFlush(t) \/ Flushed(t)
         \/ NothingToFree(t) \/ Released(t)
  PROVE  TypeInv'
<1> DEFINE c == call'[t]
<1>1. call \in [Actors -> Calls] /\ call[t] \in Calls
  BY DEF TypeInv
<1>2. UNCHANGED <<ctx, live, partOf, overlapped>>
  BY DEF Refuse, AttachBegin, Activate, ToFlush, Flushed, NothingToFree, Released
<1>3. active' \in BOOLEAN /\ detaches' \in Nat
  <2>1. active \in BOOLEAN /\ detaches \in Nat
    BY DEF TypeInv
  <2>2. detaches' = detaches \/ detaches' = detaches + 1
    BY DEF Refuse, AttachBegin, Activate, ToFlush, Flushed, NothingToFree, Released
  <2>3. active' = active \/ active' = TRUE \/ active' = (active /\ call[t].op # "detach")
    BY DEF Refuse, AttachBegin, Activate, ToFlush, Flushed, NothingToFree, Released
  <2>4. active' \in BOOLEAN
    BY <2>1, <2>3
  <2> QED  BY <2>1, <2>2, <2>4
<1>4. call' = [call EXCEPT ![t] = c] /\ CallTyped(c)
  <2>1. CASE Leave(t)
    BY <1>1, <2>1, IdleTyped DEF Leave
  <2>2. CASE AttachBegin(t)
    <3>1. c = [call[t] EXCEPT !.pc = "alloc"] /\ call[t].k \in 1 .. 5
      BY <1>1, <2>2 DEF AttachBegin, TypeInv
    <3> QED  BY <1>1, <2>2, <3>1 DEF AttachBegin, CallTyped, Calls
  <2>3. CASE ToFlush(t)
    BY <1>1, <2>3 DEF ToFlush, CallTyped, Calls
  <2>4. CASE Flushed(t) /\ call[t].op # "flush"
    BY <1>1, <2>4, TodoLists DEF Flushed, CallTyped, Calls
  <2>5. CASE NothingToFree(t)
    <3>1. Tail(call[t].todo) \in Seq(Field)
      BY <1>1, <2>5, HeadTailProperties DEF NothingToFree, Calls
    <3> QED  BY <1>1, <2>5, <3>1 DEF NothingToFree, CallTyped, Calls
  <2> QED
    BY <2>1, <2>2, <2>3, <2>4, <2>5
    DEF Refuse, Activate, Flushed, Released
<1> HIDE DEF c
<1> QED  BY <1>2, <1>3, <1>4, OneCallTyped DEF TypeInv

(* A step of a call that allocates, loses or releases an object.             *)
LEMMA ObjectStepTyped ==
  ASSUME TypeInv, NEW t \in Actors,
         AllocOk(t) \/ AllocFail(t) \/ Free(t) \/ Clear(t)
  PROVE  TypeInv'
<1> DEFINE c == call'[t]
<1>1. /\ call \in [Actors -> Calls] /\ call[t] \in Calls
      /\ call[t].pc = "alloc" => call[t].k \in 1 .. 5
      /\ call[t].pc = "clear" => call[t].todo # <<>>
      /\ ctx \in [Field -> Objects \cup {None}]
      /\ \A f \in Field : ctx[f] \in Numbered(f) \cup {None}
      /\ live \subseteq Objects /\ IsFiniteSet(live)
  BY DEF TypeInv
<1>2. UNCHANGED <<active, overlapped, detaches>>
  BY DEF AllocOk, AllocFail, Free, Clear
<1>3. CASE AllocOk(t)
  <2> DEFINE f == Fields[call[t].k]
  <2>1. call[t].k \in 1 .. 4 /\ f \in Field
    BY <1>1, <1>3, FieldsAre DEF AllocOk
  <2>2. PICK new \in Unused(f) :
          ctx' = [ctx EXCEPT ![f] = new] /\ live' = live \cup {new}
    BY <1>3 DEF AllocOk
  <2>3. new \in Numbered(f) /\ new \in Objects
    BY <2>1, ObjectsAre DEF Unused, Numbered
  <2>4. live' \subseteq Objects /\ IsFiniteSet(live')
    BY <1>1, <2>2, <2>3, FS_AddElement
  <2> HIDE DEF f
  <2>5. /\ ctx' \in [Field -> Objects \cup {None}]
        /\ \A g \in Field : ctx'[g] \in Numbered(g) \cup {None}
    BY <1>1, <2>1, <2>2, <2>3
  <2>6. c = [call[t] EXCEPT !.k = @ + 1] /\ call' = [call EXCEPT ![t] = c]
    BY <1>1, <1>3 DEF AllocOk
  <2>7. CallTyped(c)
    <3>1. call[t].pc = "alloc"
      BY <1>3 DEF AllocOk
    <3> HIDE DEF c
    <3>2. call[t].k + 1 \in 1 .. 5
      BY <2>1
    <3> DEFINE r == call[t]
               n == call[t].k + 1
    <3>3. r \in Calls /\ n \in 0 .. 5 /\ r.pc = "alloc"
      BY <1>1, <3>1, <3>2
    <3>4. c = [r EXCEPT !.k = n]
      BY <2>6
    <3> HIDE DEF r
    <3>5. c \in Calls /\ c.pc = "alloc" /\ c.k = n
      <4> HIDE DEF n
      <4> QED  BY <3>3, <3>4 DEF Calls
    <3> QED  BY <3>2, <3>5 DEF CallTyped
  <2>8. partOf' \in Disks
    BY <1>1, <1>3 DEF AllocOk, TypeInv, Calls
  <2> HIDE DEF c
  <2> QED  BY <1>2, <2>4, <2>5, <2>6, <2>7, <2>8, OneCallTyped DEF TypeInv
<1>4. CASE AllocFail(t)
  <2> DEFINE f == Fields[call[t].k]
  <2>1. call[t].k \in 1 .. 4 /\ f \in Field
    BY <1>1, <1>4, FieldsAre DEF AllocFail
  <2>2. ctx' = ctx \/ ctx' = [ctx EXCEPT ![f] = None]
    BY <1>4 DEF AllocFail, AfterFail
  <2> HIDE DEF f
  <2>3. /\ ctx' \in [Field -> Objects \cup {None}]
        /\ \A g \in Field : ctx'[g] \in Numbered(g) \cup {None}
    BY <1>1, <2>1, <2>2
  <2>4. Undone(call[t].k) \in Seq(Field)
    BY <2>1, UndoneIs
  <2>5. call' = [call EXCEPT ![t] = c] /\ CallTyped(c)
    BY <1>1, <1>4, <2>4 DEF AllocFail, CallTyped, Calls
  <2> HIDE DEF c
  <2> QED
    BY <1>1, <1>2, <1>4, <2>3, <2>5, OneCallTyped DEF TypeInv, AllocFail
<1>5. CASE Free(t)
  <2>1. live' \subseteq Objects /\ IsFiniteSet(live')
    BY <1>1, <1>5, FS_RemoveElement DEF Free
  <2>2. call' = [call EXCEPT ![t] = c] /\ CallTyped(c)
    BY <1>1, <1>5 DEF Free, CallTyped, Calls
  <2> HIDE DEF c
  <2> QED  BY <1>2, <1>5, <2>1, <2>2, OneCallTyped DEF TypeInv, Free
<1>6. CASE Clear(t)
  <2>1. Head(call[t].todo) \in Field /\ Tail(call[t].todo) \in Seq(Field)
    BY <1>1, <1>6, HeadTailProperties DEF Clear, Calls
  <2>2. call' = [call EXCEPT ![t] = c] /\ CallTyped(c)
    BY <1>1, <1>6, <2>1 DEF Clear, CallTyped, Calls
  <2>3. /\ ctx' \in [Field -> Objects \cup {None}]
        /\ \A g \in Field : ctx'[g] \in Numbered(g) \cup {None}
    BY <1>1, <1>6, <2>1 DEF Clear
  <2> HIDE DEF c
  <2> QED  BY <1>1, <1>2, <1>6, <2>2, <2>3, OneCallTyped DEF TypeInv, Clear
<1> QED  BY <1>3, <1>4, <1>5, <1>6

LEMMA TypeNext ==
  ASSUME TypeInv, [Next]_vars
  PROVE  TypeInv'
<1>1. CASE UNCHANGED kvars
  BY <1>1 DEF TypeInv, kvars
<1>2. ASSUME NEW t \in Callers, Find(t)
      PROVE  TypeInv'
  <2>1. t \in Actors
    BY DEF Actors
  <2>2. \E op \in {"attach", "detach", "flush"}, d \in Disks : Enter(t, op, d, "dispatch", <<>>)
    BY <1>2, DiskAssumption DEF Find, Present
  <2> QED  BY <1>2, <2>1, <2>2, EnterTyped, TodoLists DEF TypeInv, Find
<1>3. ASSUME NEW t \in Actors, CallStep(t)
      PROVE  TypeInv'
  BY <1>3, QuietCallTyped, ObjectStepTyped DEF CallStep
<1>4. ASSUME NEW u \in Users, UserStep(u)
      PROVE  TypeInv'
  BY <1>4 DEF TypeInv, UserStep, UserEnter, UserTest, UserDeref
<1>5. CASE Cleanup
  <2>1. Remover \in Actors
    BY DEF Actors
  <2>2. \E pc \in {"flush", "release"} :
          Enter(Remover, "cleanup", Disk, pc, <<"map", "file", "popItem", "syncItem">>)
    BY <1>5 DEF Cleanup
  <2> QED
    BY <1>5, <2>1, <2>2, EnterTyped, TodoLists, DiskAssumption DEF TypeInv, Cleanup
<1> QED  BY <1>1, <1>2, <1>3, <1>4, <1>5 DEF Next, vars

-----------------------------------------------------------------------------
(* Whose partition it is *)

LEMMA YoungerAppend ==
  ASSUME NEW s \in Seq(Disks), Distinct(s), NEW e \in Disks, e \notin Range(s),
         NEW d \in Disks, Younger(s, d), e = Disk => d = Disk
  PROVE  Younger(Append(s, e), d)
<1> DEFINE w == Append(s, e)
           n == Len(s)
<1>1. /\ n \in Nat /\ Len(w) = n + 1 /\ w[n + 1] = e
      /\ \A k \in 1 .. n : w[k] = s[k]
  OBVIOUS
<1>2. Range(w) = Range(s) \cup {e}
  BY AppendOne
<1> SUFFICES ASSUME {Disk, d} \subseteq Range(w), d # Disk
             PROVE  \E i, j \in 1 .. Len(w) : i < j /\ w[i] = Disk /\ w[j] = d
  BY DEF Younger
<1> HIDE DEF w
<1>3. Disk \in Range(s)
  BY <1>2
<1>4. CASE d \in Range(s)
  <2>1. PICK i, j \in 1 .. n : i < j /\ s[i] = Disk /\ s[j] = d
    BY <1>3, <1>4 DEF Younger
  <2> QED  BY <1>1, <2>1
<1>5. CASE d = e
  <2>1. PICK i \in 1 .. n : s[i] = Disk
    BY <1>3, RangeIs
  <2>2. i \in 1 .. Len(w) /\ n + 1 \in 1 .. Len(w) /\ i < n + 1
    BY <1>1
  <2>3. w[i] = Disk /\ w[n + 1] = d
    BY <1>1, <1>5, <2>1
  <2> QED  BY <2>2, <2>3
<1> QED  BY <1>2, <1>4, <1>5

LEMMA YoungerWithout ==
  ASSUME NEW s \in Seq(Disks), Distinct(s), NEW e, NEW d, Younger(s, d)
  PROVE  Younger(Without(s, e), d)
<1> SUFFICES ASSUME {Disk, d} \subseteq Range(Without(s, e)), d # Disk
             PROVE  \E p, q \in 1 .. Len(Without(s, e)) :
                      p < q /\ Without(s, e)[p] = Disk /\ Without(s, e)[q] = d
  BY DEF Younger
<1>1. {Disk, d} \subseteq Range(s) /\ Disk # e /\ d # e
  BY WithoutOne
<1>2. PICK i, j \in 1 .. Len(s) : i < j /\ s[i] = Disk /\ s[j] = d
  BY <1>1 DEF Younger
<1> DEFINE w == Without(s, e)
<1>3. \A a, b \in 1 .. Len(s) :
        a < b /\ s[a] # e /\ s[b] # e =>
          \E p, q \in 1 .. Len(w) : p < q /\ w[p] = s[a] /\ w[q] = s[b]
  BY WithoutOne
<1> HIDE DEF w
<1>4. \E p, q \in 1 .. Len(w) : p < q /\ w[p] = s[i] /\ w[q] = s[j]
  BY <1>1, <1>2, <1>3
<1> QED  BY <1>2, <1>4 DEF w

(* Every disk comes after the one that the head of the list points to.       *)
LEMMA YoungerThanFirst ==
  ASSUME NEW s \in Seq(Disks), NEW fl, NEW bl, Ring(s, fl, bl),
         fl[ListHead] = Disk, NEW d
  PROVE  Younger(s, d)
<1> SUFFICES ASSUME {Disk, d} \subseteq Range(s), d # Disk
             PROVE  \E i, j \in 1 .. Len(s) : i < j /\ s[i] = Disk /\ s[j] = d
  BY DEF Younger
<1>1. PICK j \in 1 .. Len(s) : s[j] = d
  BY RangeIs
<1>2. /\ 0 \in 0 .. Len(s) /\ 1 \in 1 .. Len(s)
      /\ RingAt(s, 0) = ListHead /\ RingAt(s, 0 + 1) = s[1]
  BY <1>1 DEF RingAt
<1>3. s[1] = Disk
  BY <1>2 DEF Ring
<1>4. 1 < j
  BY <1>1, <1>3
<1> QED  BY <1>1, <1>2, <1>3, <1>4

(* Only a disk that is on the list is found.                                 *)
LEMMA FoundListed ==
  ASSUME ListInv, ~halted, Found(Disk)
  PROVE  /\ \A d \in Disks : Younger(order, d)
         /\ dev[Disk] \in {"linked", "added"}
<1>1. order \in Seq(Disks) /\ Ring(order, flink, blink) /\ Range(order) = Listed
  BY DEF ListInv
<1>2. \A d \in Disks : Younger(order, d)
  BY <1>1, YoungerThanFirst DEF Found
<1>3. 0 \in 0 .. Len(order) /\ RingAt(order, 0) = ListHead
  BY <1>1 DEF RingAt
<1>4. RingAt(order, 0 + 1) = Disk
  BY <1>1, <1>3 DEF Ring, Found
<1>5. Disk \in Range(order)
  <2>1. Disk # ListHead
    BY DiskAssumption, HeadAssumption
  <2>2. 1 \in 1 .. Len(order) /\ order[1] = Disk
    BY <1>4, <2>1 DEF RingAt
  <2> QED  BY <1>1, <2>2, RangeIs
<1> QED  BY <1>1, <1>2, <1>5 DEF Listed

LEMMA OwnersInit == ASSUME Init PROVE OwnersInv
BY DEF Init, OwnersInv, IdleCall, Younger

LEMMA OwnersNext ==
  ASSUME ListInv, TypeInv, OwnersInv, [Next]_vars
  PROVE  OwnersInv'
<1>1. /\ order \in Seq(Disks) /\ Distinct(order)
      /\ ~halted => Range(order) = Listed
      /\ call \in [Actors -> Calls] /\ partOf \in Disks
      /\ \A t \in Actors : call[t].named \in Disks
  BY DEF ListInv, TypeInv, Calls
<1>2. /\ Younger(order, partOf)
      /\ \A t \in Actors : Younger(order, call[t].named)
      /\ dev[Disk] = "absent" =>
           partOf = Disk /\ ~active /\ \A t \in Actors : call[t] = IdleCall
  BY DEF OwnersInv
<1>3. \A s : Younger(s, Disk)
  BY DEF Younger
<1>4. CASE UNCHANGED vars
  BY <1>4 DEF OwnersInv, vars, dvars, kvars
<1>5. ASSUME NEW t \in Callers, Find(t), UNCHANGED dvars, ~halted
      PROVE  OwnersInv'
  <2>1. t \in Actors
    BY DEF Actors
  <2>2. /\ \A d \in Disks : Younger(order, d)
        /\ dev[Disk] # "absent"
    BY <1>5, FoundListed DEF Find
  <2>3. \E d \in Disks : call'[t].named = d
    BY <1>1, <1>5, <2>1, DiskAssumption DEF Find, Enter, Present
  <2>4. \A a \in Actors \ {t} : call'[a] = call[a]
    BY <1>1, <1>5, <2>1 DEF Find, Enter
  <2> QED
    BY <1>2, <1>5, <2>2, <2>3, <2>4 DEF OwnersInv, Find, dvars
<1>6. ASSUME NEW t \in Actors, CallStep(t), UNCHANGED dvars
      PROVE  OwnersInv'
  <2>1. call[t] # IdleCall
    BY <1>6
    DEF IdleCall, CallStep, Refuse, AttachBegin, AllocOk, AllocFail, Activate,
        ToFlush, Flushed, Free, Clear, NothingToFree, Released
  <2>2. dev[Disk] # "absent"
    BY <1>2, <2>1
  <2>3. call'[t].named \in {call[t].named, Disk}
    BY <1>1, <1>6
    DEF Calls, Leave, IdleCall, CallStep, Refuse, AttachBegin, AllocOk, AllocFail,
        Activate, ToFlush, Flushed, Free, Clear, NothingToFree, Released
  <2>4. \A a \in Actors \ {t} : call'[a] = call[a]
    BY <1>1, <1>6
    DEF Leave, CallStep, Refuse, AttachBegin, AllocOk, AllocFail,
        Activate, ToFlush, Flushed, Free, Clear, NothingToFree, Released
  <2>5. partOf' \in {partOf, call[t].named}
    BY <1>6
    DEF CallStep, Refuse, AttachBegin, AllocOk, AllocFail,
        Activate, ToFlush, Flushed, Free, Clear, NothingToFree, Released
  <2> QED
    BY <1>2, <1>3, <1>6, <2>2, <2>3, <2>4, <2>5 DEF OwnersInv, dvars
<1>7. ASSUME NEW u \in Users, UserStep(u), UNCHANGED dvars
      PROVE  OwnersInv'
  BY <1>2, <1>7 DEF OwnersInv, UserStep, UserEnter, UserTest, UserDeref, dvars
<1>8. CASE Cleanup
  <2>1. Remover \in Actors
    BY DEF Actors
  <2>2. call'[Remover].named = Disk /\ \A a \in Actors \ {Remover} : call'[a] = call[a]
    BY <1>1, <1>8, <2>1 DEF Cleanup, Enter
  <2>3. order' = Without(order, Disk) /\ dev'[Disk] # "absent" /\ partOf' = partOf
    BY <1>8, DiskAssumption DEF Cleanup, Withdraw, ListInv
  <2>4. \A d : Younger(order, d) => Younger(order', d)
    BY <1>1, <2>3, YoungerWithout
  <2> QED  BY <1>2, <1>3, <2>2, <2>3, <2>4 DEF OwnersInv
<1>9. ASSUME NEW d \in Disks, AddStep(d), UNCHANGED kvars, ~halted
      PROVE  OwnersInv'
  <2>1. CASE AddLink(d)
    <3>1. d \notin Range(order) /\ order' = Append(order, d)
      BY <1>1, <1>9, <2>1 DEF AddLink, Listed
    <3>2. ASSUME NEW e \in Disks, Younger(order, e), d = Disk => e = Disk
          PROVE  Younger(order', e)
      BY <1>1, <3>1, <3>2, YoungerAppend
    <3>3. d = Disk => dev[Disk] = "absent"
      BY <2>1 DEF AddLink
    <3>4. dev'[Disk] = "absent" => dev[Disk] = "absent"
      BY <2>1, DiskAssumption DEF AddLink, ListInv
    <3>5. d = Disk => partOf = Disk /\ \A t \in Actors : call[t].named = Disk
      BY <1>2, <3>3 DEF IdleCall
    <3> QED
      BY <1>1, <1>2, <1>9, <3>2, <3>4, <3>5 DEF OwnersInv, kvars
  <2>2. CASE AddDone(d)
    <3>1. order' = order /\ (dev'[Disk] = "absent" => dev[Disk] = "absent")
      BY <2>2, DiskAssumption DEF AddDone, ListInv
    <3> QED  BY <1>2, <1>9, <3>1 DEF OwnersInv, kvars
  <2>3. CASE AddFails(d)
    <3>1. /\ order' = Without(order, d)
          /\ dev'[Disk] = "absent" => dev[Disk] = "absent"
      BY <2>3, DiskAssumption DEF AddFails, ListInv
    <3>2. \A e : Younger(order, e) => Younger(order', e)
      BY <1>1, <3>1, YoungerWithout
    <3> QED  BY <1>2, <1>9, <3>1, <3>2 DEF OwnersInv, kvars
  <2> QED  BY <1>9, <2>1, <2>2, <2>3 DEF AddStep
<1>10. ASSUME NEW d \in Disks \ {Disk}, Withdraw(d, "absent"), UNCHANGED kvars
       PROVE  OwnersInv'
  <2>1. order' = Without(order, d) /\ dev'[Disk] = dev[Disk]
    BY <1>10, DiskAssumption DEF Withdraw, ListInv
  <2>2. \A e : Younger(order, e) => Younger(order', e)
    BY <1>1, <2>1, YoungerWithout
  <2> QED  BY <1>2, <1>10, <2>1, <2>2 DEF OwnersInv, kvars
<1> QED
  BY <1>4, <1>5, <1>6, <1>7, <1>8, <1>9, <1>10 DEF Next

-----------------------------------------------------------------------------
(* What a call accounts for *)

(* A step of a call in progress, if none overlaps, is that of the only call. *)
LEMMA ActsAlone ==
  ASSUME ResourceInv, ~overlapped, NEW t \in Actors, call[t].pc # "idle"
  PROVE  Alone(t) /\ CallInv(call[t]) /\ \A f \in Held : Of(f) \subseteq {ctx[f]}
<1>1. PICK s \in Actors : Alone(s) /\ CallInv(call[s])
  BY DEF ResourceInv
<1>2. s = t
  BY <1>1 DEF Alone, IdleCall
<1> QED  BY <1>1, <1>2 DEF ResourceInv

(* A call that enters without an overlap finds all others idle.              *)
LEMMA EntersAlone ==
  ASSUME TypeInv, ResourceInv, NEW t \in Actors, NEW op, NEW named, NEW pc, NEW todo,
         Enter(t, op, named, pc, todo), ~overlapped'
  PROVE  /\ ~overlapped /\ Alone(t) /\ call[t] = IdleCall /\ CallInv(call[t])
         /\ \A f \in Held : Of(f) \subseteq {ctx[f]}
         /\ call' = [call EXCEPT ![t] =
              [op |-> op, named |-> named, pc |-> pc, k |-> 1, todo |-> todo]]
<1>1. ~overlapped /\ \A a \in Actors : call[a].pc = "idle"
  BY DEF Enter, Busy
<1>2. \A a \in Actors : call[a] = IdleCall
  BY <1>1 DEF TypeInv
<1>3. PICK s \in Actors : CallInv(call[s])
  BY <1>1 DEF ResourceInv
<1> QED  BY <1>1, <1>2, <1>3 DEF Alone, ResourceInv, Enter

(* Who is alone stays alone in his own steps.                                *)
LEMMA StaysAlone ==
  ASSUME TypeInv, NEW t \in Actors, Alone(t),
         \A a \in Actors \ {t} : call'[a] = call[a]
  PROVE  Alone(t)'
BY DEF Alone

(* A step that leaves the objects alone is judged by what the call holds.    *)
LEMMA SameObjects ==
  ASSUME TypeInv, ResourceInv, ~overlapped, NEW t \in Actors, call[t].pc # "idle",
         UNCHANGED <<ctx, live, dev>>,
         \A a \in Actors \ {t} : call'[a] = call[a],
         CallShape(call[t])', Remains(call[t])',
         \A f \in Field : Freeing(call[t], f)' <=> Freeing(call[t], f),
         call'[t].op # "cleanup" /\ dev[Disk] # "gone" => call[t].op # "cleanup",
         call'[t].op # "cleanup" /\ dev[Disk] # "gone" =>
           /\ \A f \in Held : Holds(call[t], f)' <=> Holds(call[t], f)
           /\ \A f \in Items :
                /\ Holds(call[t], f)' => Holds(call[t], f)
                /\ detaches + (IF Holds(call[t], f) THEN 1 ELSE 0)
                   = detaches' + (IF Holds(call[t], f)' THEN 1 ELSE 0)
  PROVE  ResourceInv'
<1>1. Alone(t) /\ CallInv(call[t]) /\ \A f \in Held : Of(f) \subseteq {ctx[f]}
  BY ActsAlone
<1>2. Alone(t)'
  BY <1>1, StaysAlone
<1>3. Pointers(call[t])'
  BY <1>1 DEF CallInv, Pointers
<1>4. \A f \in Field : Of(f)' = Of(f)
  BY DEF Of
<1>5. Accounts(call[t])'
  <2> SUFFICES ASSUME call'[t].op # "cleanup", dev[Disk] # "gone"
               PROVE  /\ \A f \in Held : Holds(call[t], f)' <=> ctx[f] \in live
                      /\ \A f \in Items :
                           /\ Holds(call[t], f)' => ctx[f] \in live
                           /\ Cardinality(Of(f)) =
                                detaches' + (IF Holds(call[t], f)' THEN 1 ELSE 0)
    BY DEF Accounts, Of
  <2> QED  BY <1>1 DEF CallInv, Accounts
<1>6. \A f \in Held : Of(f)' \subseteq {ctx'[f]}
  BY <1>1, <1>4, FieldsAre
<1> QED
  BY <1>2, <1>3, <1>5, <1>6 DEF ResourceInv, CallInv

(* The state of a call that is about to make a step, as far as any step      *)
(* needs it.                                                                 *)
LEMMA CallKnows ==
  ASSUME TypeInv, ResourceInv, ~overlapped, NEW t \in Actors, call[t].pc # "idle"
  PROVE  /\ call \in [Actors -> Calls] /\ call[t] \in Calls
         /\ CallShape(call[t]) /\ Pointers(call[t])
         /\ Accounts(call[t]) /\ Remains(call[t])
         /\ active \in BOOLEAN
BY ActsAlone DEF TypeInv, CallInv

LEMMA RefuseKeeps ==
  ASSUME TypeInv, ResourceInv, ~overlapped, NEW t \in Actors, Refuse(t),
         ~halted, UNCHANGED <<dev, halted>>
  PROVE  ResourceInv'
<1> DEFINE c == call[t]
<1>1. /\ c.pc = "dispatch" /\ call' = [call EXCEPT ![t] = IdleCall]
      /\ UNCHANGED <<active, ctx, live, detaches>>
  BY DEF Refuse, Leave
<1>2. /\ call \in [Actors -> Calls] /\ CallShape(c) /\ Remains(c)
  BY <1>1, CallKnows
<1>3. c.op \in {"attach", "detach", "flush"}
  BY <1>1, <1>2 DEF CallShape
<1>4. call'[t] = IdleCall /\ \A a \in Actors \ {t} : call'[a] = call[a]
  BY <1>1, <1>2
<1>5. CallShape(call[t])'
  BY <1>4, TodoLists DEF CallShape, IdleCall
<1>6. Remains(call[t])'
  BY <1>2, <1>3, <1>4 DEF Remains, IdleCall
<1>7. \A f \in Field : ~Freeing(call[t], f) /\ (Holds(call[t], f) <=> active)
  BY <1>1 DEF Freeing, Holds
<1>8. \A f \in Field : ~Freeing(call[t], f)' /\ (Holds(call[t], f)' <=> active)
  BY <1>1, <1>4 DEF Freeing, Holds, IdleCall
<1> QED
  BY <1>1, <1>3, <1>4, <1>5, <1>6, <1>7, <1>8, SameObjects, FieldsAre

LEMMA AttachBeginKeeps ==
  ASSUME TypeInv, ResourceInv, ~overlapped, NEW t \in Actors, AttachBegin(t),
         ~halted, UNCHANGED <<dev, halted>>
  PROVE  ResourceInv'
<1> DEFINE c == call[t]
<1>1. /\ c.pc = "dispatch" /\ c.op = "attach" /\ ~active
      /\ call' = [call EXCEPT ![t].pc = "alloc"]
      /\ UNCHANGED <<active, ctx, live, detaches>>
  BY DEF AttachBegin
<1>2. /\ call \in [Actors -> Calls] /\ c \in Calls /\ CallShape(c) /\ Remains(c)
  BY <1>1, CallKnows
<1>3. /\ call'[t].pc = "alloc" /\ call'[t].op = "attach" /\ call'[t].todo = c.todo
      /\ call'[t].k = c.k /\ c.k = 1
      /\ \A a \in Actors \ {t} : call'[a] = call[a]
  BY <1>1, <1>2 DEF Calls, CallShape
<1>4. CallShape(call[t])'
  BY <1>1, <1>2, <1>3 DEF CallShape
<1>5. Remains(call[t])'
  BY <1>1, <1>2, <1>3 DEF Remains
<1>6. \A f \in Field : /\ ~Freeing(call[t], f) /\ ~Freeing(call[t], f)'
                       /\ ~Holds(call[t], f) /\ ~Holds(call[t], f)'
  BY <1>1, <1>3 DEF Freeing, Holds
<1> QED
  BY <1>1, <1>3, <1>4, <1>5, <1>6, SameObjects, FieldsAre

LEMMA ActivateKeeps ==
  ASSUME TypeInv, ResourceInv, ~overlapped, NEW t \in Actors, Activate(t),
         ~halted, UNCHANGED <<dev, halted>>
  PROVE  ResourceInv'
<1> DEFINE c == call[t]
<1>1. /\ c.pc = "alloc" /\ c.k > Len(Fields) /\ active'
      /\ call' = [call EXCEPT ![t] = IdleCall]
      /\ UNCHANGED <<ctx, live, detaches>>
  BY DEF Activate, Leave
<1>2. /\ call \in [Actors -> Calls] /\ CallShape(c) /\ Remains(c)
  BY <1>1, CallKnows
<1>3. c.op = "attach" /\ c.k = 5
  BY <1>1, <1>2, FieldsAre DEF CallShape
<1>4. call'[t] = IdleCall /\ \A a \in Actors \ {t} : call'[a] = call[a]
  BY <1>1, <1>2
<1>5. CallShape(call[t])'
  BY <1>4, TodoLists DEF CallShape, IdleCall
<1>6. Remains(call[t])'
  BY <1>2, <1>3, <1>4 DEF Remains, IdleCall
<1>7. \A f \in Field : /\ ~Freeing(call[t], f) /\ ~Freeing(call[t], f)'
                       /\ Holds(call[t], f) /\ Holds(call[t], f)'
  BY <1>1, <1>3, <1>4, FieldsAre DEF Freeing, Holds, IdleCall
<1> QED
  BY <1>1, <1>3, <1>4, <1>5, <1>6, <1>7, SameObjects, FieldsAre

LEMMA ToFlushKeeps ==
  ASSUME TypeInv, ResourceInv, ~overlapped, NEW t \in Actors, ToFlush(t),
         ~halted, UNCHANGED <<dev, halted>>
  PROVE  ResourceInv'
<1> DEFINE c == call[t]
<1>1. /\ c.pc = "dispatch" /\ c.op \in {"detach", "flush"} /\ active
      /\ call' = [call EXCEPT ![t].pc = "flush"]
      /\ UNCHANGED <<active, ctx, live, detaches>>
  BY DEF ToFlush
<1>2. /\ call \in [Actors -> Calls] /\ c \in Calls /\ CallShape(c) /\ Remains(c)
  BY <1>1, CallKnows
<1>3. /\ call'[t].pc = "flush" /\ call'[t].op = c.op /\ call'[t].todo = c.todo
      /\ \A a \in Actors \ {t} : call'[a] = call[a]
  BY <1>1, <1>2 DEF Calls
<1>4. CallShape(call[t])'
  BY <1>1, <1>2, <1>3 DEF CallShape
<1>5. Remains(call[t])'
  BY <1>1, <1>2, <1>3 DEF Remains
<1>6. \A f \in Field : /\ ~Freeing(call[t], f) /\ ~Freeing(call[t], f)'
                       /\ Holds(call[t], f) /\ Holds(call[t], f)'
  BY <1>1, <1>3 DEF Freeing, Holds
<1> QED
  BY <1>1, <1>3, <1>4, <1>5, <1>6, SameObjects, FieldsAre

(* A flush leaves; a detach goes on to release what it holds; a cleanup      *)
(* releases everything.                                                      *)
LEMMA FlushedKeeps ==
  ASSUME TypeInv, ResourceInv, ~overlapped, NEW t \in Actors, Flushed(t),
         ~halted, UNCHANGED <<dev, halted>>
  PROVE  ResourceInv'
<1> DEFINE c == call[t]
<1>1. c.pc = "flush" /\ UNCHANGED <<active, ctx, live, detaches>>
  BY DEF Flushed
<1>2. /\ call \in [Actors -> Calls] /\ c \in Calls /\ CallShape(c) /\ Remains(c)
  BY <1>1, CallKnows
<1>3. \A f \in Field : ~Freeing(call[t], f) /\ (Holds(call[t], f) <=> active)
  BY <1>1 DEF Freeing, Holds
<1>4. CASE c.op = "flush"
  <2>1. call'[t] = IdleCall /\ \A a \in Actors \ {t} : call'[a] = call[a]
    BY <1>2, <1>4 DEF Flushed, Leave
  <2>2. CallShape(call[t])'
    BY <2>1, TodoLists DEF CallShape, IdleCall
  <2>3. Remains(call[t])'
    BY <1>2, <1>4, <2>1 DEF Remains, IdleCall
  <2>4. \A f \in Field : ~Freeing(call[t], f)' /\ (Holds(call[t], f)' <=> active)
    BY <1>1, <2>1 DEF Freeing, Holds, IdleCall
  <2> QED
    BY <1>1, <1>3, <1>4, <2>1, <2>2, <2>3, <2>4, SameObjects, FieldsAre
<1>5. CASE c.op = "detach"
  <2>1. /\ call'[t].pc = "release" /\ call'[t].op = "detach"
        /\ call'[t].todo = <<"map", "file">>
        /\ \A a \in Actors \ {t} : call'[a] = call[a]
    BY <1>2, <1>5 DEF Flushed, Calls
  <2>2. active
    BY <1>1, <1>2, <1>5 DEF CallShape
  <2>3. CallShape(call[t])'
    BY <1>1, <2>1, <2>2, TodoLists DEF CallShape, Todo
  <2>4. Remains(call[t])'
    BY <1>2, <1>5, <2>1 DEF Remains
  <2>5. \A f \in Field : ~Freeing(call[t], f)' /\ Holds(call[t], f)'
    BY <2>1, TodoLists, FieldsAre DEF Freeing, Holds, Todo
  <2> QED
    BY <1>1, <1>3, <1>5, <2>1, <2>2, <2>3, <2>4, <2>5, SameObjects, FieldsAre
<1>6. CASE c.op = "cleanup"
  <2>1. /\ call'[t].pc = "release" /\ call'[t].op = "cleanup"
        /\ call'[t].todo = <<"map", "file", "popItem", "syncItem">>
        /\ \A a \in Actors \ {t} : call'[a] = call[a]
    BY <1>1, <1>2, <1>6 DEF Flushed, Calls, CallShape
  <2>2. CallShape(call[t])'
    BY <2>1, TodoLists DEF CallShape
  <2>3. Remains(call[t])'
    BY <1>2, <1>6, <2>1, TodoLists DEF Remains, Todo
  <2>4. \A f \in Field : ~Freeing(call[t], f)'
    BY <2>1 DEF Freeing
  <2> QED
    BY <1>1, <1>3, <2>1, <2>2, <2>3, <2>4, SameObjects
<1> QED  BY <1>1, <1>2, <1>4, <1>5, <1>6 DEF CallShape

(* A null pointer is not held, so that passing over it forgets nothing.      *)
LEMMA NothingToFreeKeeps ==
  ASSUME TypeInv, ResourceInv, ~overlapped, NEW t \in Actors, NothingToFree(t),
         ~halted, UNCHANGED <<dev, halted>>
  PROVE  ResourceInv'
<1> DEFINE c == call[t]
           h == Head(c.todo)
<1>1. /\ c.pc = "release" /\ c.todo # <<>> /\ ctx[h] = None /\ c.op # "undo"
      /\ call' = [call EXCEPT ![t].todo = Tail(@)]
      /\ UNCHANGED <<active, ctx, live, detaches>>
  BY DEF NothingToFree
<1>2. /\ call \in [Actors -> Calls] /\ c \in Calls
      /\ CallShape(c) /\ Accounts(c) /\ Remains(c)
  BY <1>1, CallKnows
<1>3. /\ h \in Field /\ h \in Todo(c) /\ Tail(c.todo) \in Seq(Field)
      /\ Distinct(Tail(c.todo)) /\ Range(Tail(c.todo)) = Todo(c) \ {h}
  BY <1>1, <1>2, TailIs DEF CallShape, Todo
<1>4. /\ call'[t].pc = "release" /\ call'[t].op = c.op /\ call'[t].todo = Tail(c.todo)
      /\ \A a \in Actors \ {t} : call'[a] = call[a]
  BY <1>1, <1>2 DEF Calls
<1> HIDE DEF h
<1>5. CallShape(call[t])'
  BY <1>1, <1>2, <1>3, <1>4 DEF CallShape, Todo
<1>6. Todo(call[t])' = Todo(call[t]) \ {h}
  BY <1>3, <1>4 DEF Todo
<1>7. Remains(call[t])'
  BY <1>1, <1>2, <1>4, <1>6 DEF Remains
<1>8. \A f \in Field : ~Freeing(call[t], f) /\ ~Freeing(call[t], f)'
  BY <1>1, <1>4 DEF Freeing
<1>9. /\ \A f \in Field : Holds(call[t], f) <=> f \in Todo(c) \/ (c.op = "detach" /\ f \in Items)
      /\ \A f \in Field : Holds(call[t], f)' <=>
           f \in Todo(c) \ {h} \/ (c.op = "detach" /\ f \in Items)
  BY <1>1, <1>4, <1>6, <1>8 DEF Holds
<1>10. c.op # "cleanup" /\ dev[Disk] # "gone" => FALSE
  <2>1. None \notin live
    BY ObjectsAre DEF TypeInv
  <2>2. Holds(call[t], h)
    BY <1>3, <1>9
  <2> QED  BY <1>1, <1>2, <1>3, <2>1, <2>2, FieldsAre DEF Accounts
<1> QED
  BY <1>1, <1>4, <1>5, <1>7, <1>8, <1>10, SameObjects

(* A call whose list is empty ends: the partition and the map are released,  *)
(* and a detach forgets the two items it holds.                              *)
LEMMA ReleasedKeeps ==
  ASSUME TypeInv, ResourceInv, ~overlapped, NEW t \in Actors, Released(t),
         ~halted, UNCHANGED <<dev, halted>>
  PROVE  ResourceInv'
<1> DEFINE c == call[t]
<1>1. /\ c.pc = "release" /\ c.todo = <<>>
      /\ active' = (active /\ c.op # "detach")
      /\ detaches' = IF c.op = "detach" THEN detaches + 1 ELSE detaches
      /\ call' = [call EXCEPT ![t] = IdleCall]
      /\ UNCHANGED <<ctx, live>>
  BY DEF Released, Leave
<1>2. /\ call \in [Actors -> Calls] /\ CallShape(c) /\ Remains(c)
      /\ detaches \in Nat /\ active \in BOOLEAN
  BY <1>1, CallKnows DEF TypeInv
<1>3. call'[t] = IdleCall /\ \A a \in Actors \ {t} : call'[a] = call[a]
  BY <1>1, <1>2
<1>4. CallShape(call[t])'
  BY <1>3, TodoLists DEF CallShape, IdleCall
<1>5. Todo(call[t]) = {} /\ Todo(call[t])' = {}
  BY <1>1, <1>3, TodoLists DEF Todo, IdleCall
<1>10. c.op \in {"undo", "detach", "cleanup"} /\ (c.op = "undo" => ~active)
  BY <1>1, <1>2 DEF CallShape
<1>6. Remains(call[t])'
  BY <1>1, <1>2, <1>3, <1>5, <1>10 DEF Remains, IdleCall
<1>7. \A f \in Field : ~Freeing(call[t], f) /\ ~Freeing(call[t], f)'
  BY <1>1, <1>3 DEF Freeing, IdleCall
<1>8. \A f \in Field : Holds(call[t], f) <=> c.op = "detach" /\ f \in Items
  BY <1>1, <1>5 DEF Holds
<1>9. \A f \in Field : Holds(call[t], f)' <=> active'
  BY <1>3 DEF Holds, IdleCall
<1>11. CASE c.op = "cleanup"
  <2>1. dev[Disk] = "gone"
    BY <1>2, <1>11 DEF Remains
  <2> QED  BY <1>1, <1>3, <1>4, <1>6, <1>7, <2>1, SameObjects
<1>12. CASE c.op # "cleanup"
  <2>1. ~active'
    BY <1>1, <1>10, <1>12
  <2>2. Held \cap Items = {} /\ Held \subseteq Field /\ Items \subseteq Field
    BY FieldsAre DEF Held, Items
  <2>3. \A f \in Held : ~Holds(call[t], f) /\ ~Holds(call[t], f)'
    BY <1>8, <1>9, <2>1, <2>2
  <2>4. \A f \in Items :
          /\ ~Holds(call[t], f)'
          /\ detaches + (IF Holds(call[t], f) THEN 1 ELSE 0) = detaches'
    BY <1>1, <1>2, <1>8, <1>9, <2>1, <2>2
  <2> QED
    BY <1>1, <1>2, <1>3, <1>4, <1>6, <1>7, <1>12, <2>3, <2>4, SameObjects
<1> QED  BY <1>11, <1>12

(* Clearing a pointer changes nothing that is allocated.                     *)
LEMMA ClearKeeps ==
  ASSUME TypeInv, ResourceInv, ~overlapped, NEW t \in Actors, Clear(t),
         ~halted, UNCHANGED <<dev, halted>>
  PROVE  ResourceInv'
<1> DEFINE c == call[t]
           h == Head(c.todo)
<1>1. /\ c.pc = "clear" /\ ctx' = [ctx EXCEPT ![h] = None]
      /\ call' = [call EXCEPT ![t].pc = "release", ![t].todo = Tail(@)]
      /\ UNCHANGED <<active, live, detaches, overlapped>>
  BY DEF Clear
<1>2. /\ call \in [Actors -> Calls] /\ c \in Calls
      /\ CallShape(c) /\ Pointers(c) /\ Accounts(c) /\ Remains(c)
      /\ Alone(t) /\ \A f \in Held : Of(f) \subseteq {ctx[f]}
      /\ c.todo # <<>> /\ ctx \in [Field -> Objects \cup {None}]
  BY <1>1, CallKnows, ActsAlone DEF TypeInv
<1>3. /\ h \in Field /\ h \in Todo(c) /\ Tail(c.todo) \in Seq(Field)
      /\ Distinct(Tail(c.todo)) /\ Range(Tail(c.todo)) = Todo(c) \ {h}
  BY <1>1, <1>2, TailIs DEF CallShape, Todo
<1>4. /\ call'[t].pc = "release" /\ call'[t].op = c.op /\ call'[t].todo = Tail(c.todo)
      /\ \A a \in Actors \ {t} : call'[a] = call[a]
  BY <1>1, <1>2 DEF Calls
<1>5. \A f \in Field : Freeing(c, f) <=> f = h
  BY <1>1 DEF Freeing
<1> HIDE DEF h
<1>6. CallShape(call[t])'
  BY <1>1, <1>2, <1>3, <1>4 DEF CallShape, Todo
<1>7. Todo(call[t])' = Todo(c) \ {h}
  BY <1>3, <1>4 DEF Todo
<1>8. ctx'[h] = None /\ \A f \in Field \ {h} : ctx'[f] = ctx[f]
  BY <1>1, <1>2, <1>3
<1>9. Remains(call[t])'
  BY <1>1, <1>2, <1>4, <1>7, <1>8 DEF Remains
<1>10. Pointers(call[t])'
  <2>1. \A f \in Field : ~Freeing(call[t], f)'
    BY <1>4 DEF Freeing
  <2>2. \A f \in Field : ctx'[f] # None => ctx'[f] \in live
    BY <1>2, <1>5, <1>8 DEF Pointers
  <2> QED  BY <1>1, <2>1, <2>2 DEF Pointers
<1>11. None \notin live /\ ctx[h] \notin live
  BY <1>2, <1>3, <1>5, ObjectsAre DEF TypeInv, Pointers
<1>12. \A f \in Field : Holds(call[t], f)' <=> Holds(c, f)
  BY <1>1, <1>4, <1>5, <1>7 DEF Holds, Freeing
<1>13. \A f \in Field : ctx'[f] \in live <=> ctx[f] \in live
  BY <1>8, <1>11
<1>14. Accounts(call[t])'
  BY <1>1, <1>2, <1>4, <1>12, <1>13, FieldsAre DEF Accounts, Of
<1>15. \A f \in Held : Of(f)' \subseteq {ctx'[f]}
  BY <1>1, <1>2, <1>8, <1>11, FieldsAre DEF Of
<1>16. Alone(t)'
  BY <1>2, <1>4, StaysAlone
<1> QED  BY <1>6, <1>9, <1>10, <1>14, <1>15, <1>16 DEF ResourceInv, CallInv

(* An attach that failed has what it is about to free.                       *)
LEMMA UndoHolds ==
  ASSUME TypeInv, ResourceInv, ~overlapped, NEW t \in Actors,
         call[t].pc = "release", call[t].todo # <<>>, call[t].op = "undo"
  PROVE  ctx[Head(call[t].todo)] \in live
<1> DEFINE c == call[t]
           h == Head(c.todo)
<1>1. CallShape(c) /\ Accounts(c) /\ Remains(c)
  BY CallKnows
<1>2. h \in Field /\ h \in Todo(c)
  BY <1>1, TailIs DEF CallShape, Todo
<1>3. dev[Disk] # "gone"
  BY <1>1 DEF Remains
<1>4. Holds(c, h)
  BY <1>2 DEF Holds, Freeing
<1> QED  BY <1>1, <1>2, <1>3, <1>4, FieldsAre DEF Accounts

(* One object is released, that of the field at the head of the list.        *)
LEMMA FreeKeeps ==
  ASSUME TypeInv, ResourceInv, ~overlapped, NEW t \in Actors, Free(t),
         ~halted, UNCHANGED <<dev, halted>>
  PROVE  ResourceInv'
<1> DEFINE c == call[t]
<1>1. /\ c.pc = "release" /\ c.todo # <<>>
      /\ ctx[Head(c.todo)] # None /\ live' = live \ {ctx[Head(c.todo)]}
      /\ call' = [call EXCEPT ![t].pc = "clear"]
      /\ UNCHANGED <<active, ctx, detaches, overlapped>>
  <2>1. None \notin live
    BY ObjectsAre DEF TypeInv
  <2> QED  BY <2>1, UndoHolds DEF Free
<1>2. /\ call \in [Actors -> Calls] /\ c \in Calls
      /\ CallShape(c) /\ Pointers(c) /\ Accounts(c) /\ Remains(c)
      /\ Alone(t) /\ \A f \in Held : Of(f) \subseteq {ctx[f]}
      /\ live \subseteq Objects /\ IsFiniteSet(live) /\ detaches \in Nat
      /\ \A f \in Field : ctx[f] \in Numbered(f) \cup {None}
  BY <1>1, CallKnows, ActsAlone DEF TypeInv
<1>3. PICK h \in Field : h = Head(c.todo) /\ h \in Todo(c)
  BY <1>1, <1>2, TailIs DEF CallShape, Todo
<1>4. /\ call'[t].pc = "clear" /\ call'[t].op = c.op /\ call'[t].todo = c.todo
      /\ \A a \in Actors \ {t} : call'[a] = call[a]
  BY <1>1, <1>2 DEF Calls
<1>5. \A f \in Field : ~Freeing(c, f) /\ (Freeing(call[t], f)' <=> f = h)
  BY <1>1, <1>3, <1>4 DEF Freeing
<1>6. CallShape(call[t])'
  BY <1>1, <1>2, <1>4 DEF CallShape, Todo
<1>7. Todo(call[t])' = Todo(c)
  BY <1>4 DEF Todo
<1>8. Remains(call[t])'
  BY <1>1, <1>2, <1>4, <1>7 DEF Remains
<1>9. /\ ctx[h] \in live /\ ctx[h] \in Numbered(h) /\ ctx[h] \notin live'
      /\ \A f \in Field \ {h} : ctx[f] # ctx[h] \/ ctx[f] = None
      /\ None \notin live
  BY <1>1, <1>2, <1>3, <1>5, ObjectsAre DEF Pointers
<1>10. \A f \in Field \ {h} : ctx[f] \in live' <=> ctx[f] \in live
  BY <1>1, <1>9
<1>11. Pointers(call[t])'
  BY <1>1, <1>2, <1>3, <1>5, <1>9, <1>10 DEF Pointers
<1>12. \A f \in Field : Holds(call[t], f)' <=> Holds(c, f) /\ (f # h \/ (c.op = "detach" /\ f \in Items))
  BY <1>1, <1>4, <1>5, <1>7 DEF Holds
<1>13. /\ Of(h)' = Of(h) \ {ctx[h]} /\ ctx[h] \in Of(h)
       /\ \A f \in Field \ {h} : Of(f)' = Of(f)
  <2>1. ctx[h][1] = h
    BY <1>3, <1>9, ObjectsAre
  <2>2. Of(h)' = Of(h) \ {ctx[h]} /\ ctx[h] \in Of(h)
    BY <1>1, <1>3, <1>9, <2>1 DEF Of
  <2>3. \A f \in Field \ {h} : Of(f)' = Of(f)
    BY <1>1, <1>3, <2>1 DEF Of
  <2> QED  BY <2>2, <2>3
<1>14. c.op = "detach" => h \in Held /\ h \notin Items
  BY <1>1, <1>2, <1>3 DEF CallShape, Held, Items
<1>15. \A f \in Field : Holds(c, f) <=> f \in Todo(c) \/ (c.op = "detach" /\ f \in Items)
  BY <1>1, <1>5 DEF Holds
<1>16. Accounts(call[t])'
  <2> SUFFICES ASSUME c.op # "cleanup", dev[Disk] # "gone"
               PROVE  /\ \A f \in Held : Holds(call[t], f)' <=> ctx[f] \in live'
                      /\ \A f \in Items :
                           /\ Holds(call[t], f)' => ctx[f] \in live'
                           /\ Cardinality(Of(f)') =
                                detaches + (IF Holds(call[t], f)' THEN 1 ELSE 0)
    BY <1>1, <1>4 DEF Accounts
  <2>1. /\ \A f \in Held : Holds(c, f) <=> ctx[f] \in live
        /\ \A f \in Items :
             /\ Holds(c, f) => ctx[f] \in live
             /\ Cardinality(Of(f)) = detaches + (IF Holds(c, f) THEN 1 ELSE 0)
    BY <1>2 DEF Accounts
  <2>2. Holds(c, h) /\ ~Holds(call[t], h)'
    BY <1>3, <1>12, <1>14, <1>15
  <2>3. \A f \in Field \ {h} : Holds(call[t], f)' <=> Holds(c, f)
    BY <1>12
  <2>4. \A f \in Held : Holds(call[t], f)' <=> ctx[f] \in live'
    BY <1>9, <1>10, <2>1, <2>2, <2>3, FieldsAre
  <2>5. \A f \in Items : Holds(call[t], f)' => ctx[f] \in live'
    BY <1>10, <2>1, <2>2, <2>3, FieldsAre
  <2>6. IsFiniteSet(Of(h)) /\ Cardinality(Of(h)') = Cardinality(Of(h)) - 1
    <3>1. IsFiniteSet(Of(h))
      BY <1>2, FS_Subset DEF Of
    <3> QED  BY <1>13, <3>1, FS_RemoveElement
  <2>7. ASSUME NEW f \in Items
        PROVE  Cardinality(Of(f)') = detaches + (IF Holds(call[t], f)' THEN 1 ELSE 0)
    <3>1. f \in Field /\ Cardinality(Of(f)) = detaches + (IF Holds(c, f) THEN 1 ELSE 0)
      BY <2>1, FieldsAre
    <3>2. CASE f = h
      BY <1>2, <2>2, <2>6, <3>1, <3>2
    <3>3. CASE f # h
      BY <1>13, <2>3, <3>1, <3>3
    <3> QED  BY <3>2, <3>3
  <2> QED  BY <2>4, <2>5, <2>7
<1>17. \A f \in Held : Of(f)' \subseteq {ctx'[f]}
  BY <1>1, <1>2, <1>13, FieldsAre
<1>18. Alone(t)'
  BY <1>2, <1>4, StaysAlone
<1> QED
  BY <1>6, <1>8, <1>11, <1>16, <1>17, <1>18 DEF ResourceInv, CallInv

(* An attach that allocates field f: it holds the fields before f, and those *)
(* only; what the context pointed to before was null, or an item that a      *)
(* detach has forgotten.                                                     *)
LEMMA AllocKnows ==
  ASSUME TypeInv, ResourceInv, ~overlapped, NEW t \in Actors,
         call[t].pc = "alloc", call[t].k <= Len(Fields)
  PROVE  /\ call[t].k \in 1 .. 4 /\ call[t].op = "attach" /\ ~active
         /\ dev[Disk] # "gone"
         /\ \A f \in Field : ctx[f] # None => ctx[f] \in live
         /\ \A f \in Field : Holds(call[t], f) <=>
              \E j \in 1 .. (call[t].k - 1) : f = Fields[j]
         /\ ~Holds(call[t], Fields[call[t].k])
         /\ \A f \in Held  : Holds(call[t], f) <=> ctx[f] \in live
         /\ \A f \in Items :
              /\ Holds(call[t], f) => ctx[f] \in live
              /\ Cardinality(Of(f)) =
                   detaches + (IF Holds(call[t], f) THEN 1 ELSE 0)
         /\ \A f \in Held : ctx[f] \notin live => Of(f) = {}
<1> DEFINE c == call[t]
<1>1. /\ CallShape(c) /\ Pointers(c) /\ Accounts(c) /\ Remains(c)
      /\ \A f \in Held : Of(f) \subseteq {ctx[f]}
  BY CallKnows, ActsAlone
<1>2. c.k \in 1 .. 4 /\ c.op = "attach" /\ ~active
  BY <1>1, FieldsAre DEF CallShape
<1>3. dev[Disk] # "gone"
  BY <1>1, <1>2 DEF Remains
<1>4. \A f \in Field : ctx[f] # None => ctx[f] \in live
  BY <1>1 DEF Pointers, Freeing
<1>5. \A f \in Field : Holds(c, f) <=> \E j \in 1 .. (c.k - 1) : f = Fields[j]
  BY <1>2 DEF Holds
<1>6. ~Holds(c, Fields[c.k])
  BY <1>2, <1>5, FieldsAre
<1>7. \A f \in Held : ctx[f] \notin live => Of(f) = {}
  BY <1>1 DEF Of
<1> QED  BY <1>1, <1>2, <1>3, <1>4, <1>5, <1>6, <1>7 DEF Accounts

LEMMA AllocOkKeeps ==
  ASSUME TypeInv, ResourceInv, ~overlapped, NEW t \in Actors, AllocOk(t),
         ~halted, UNCHANGED <<dev, halted>>
  PROVE  ResourceInv'
<1> DEFINE c == call[t]
<1>1. /\ c.pc = "alloc" /\ c.k <= Len(Fields)
      /\ call' = [call EXCEPT ![t].k = c.k + 1]
      /\ UNCHANGED <<active, detaches, overlapped>>
  BY DEF AllocOk
<1>2. /\ call \in [Actors -> Calls] /\ c \in Calls /\ CallShape(c) /\ Alone(t)
      /\ \A f \in Held : Of(f) \subseteq {ctx[f]}
      /\ ctx \in [Field -> Objects \cup {None}]
      /\ live \subseteq Objects /\ IsFiniteSet(live) /\ detaches \in Nat
  BY <1>1, CallKnows, ActsAlone DEF TypeInv
<1>3. /\ c.k \in 1 .. 4 /\ c.op = "attach" /\ ~active /\ dev[Disk] # "gone"
      /\ \A f \in Field : ctx[f] # None => ctx[f] \in live
      /\ \A f \in Field : Holds(c, f) <=> \E j \in 1 .. (c.k - 1) : f = Fields[j]
      /\ ~Holds(c, Fields[c.k])
      /\ \A f \in Held  : Holds(c, f) <=> ctx[f] \in live
      /\ \A f \in Items :
           /\ Holds(c, f) => ctx[f] \in live
           /\ Cardinality(Of(f)) = detaches + (IF Holds(c, f) THEN 1 ELSE 0)
      /\ \A f \in Held : ctx[f] \notin live => Of(f) = {}
  BY <1>1, AllocKnows
<1>4. PICK f \in Field : f = Fields[c.k]
  BY <1>3, FieldsAre
<1>5. PICK new \in Unused(f) : ctx' = [ctx EXCEPT ![f] = new] /\ live' = live \cup {new}
  BY <1>4 DEF AllocOk
<1>6. /\ new \in Numbered(f) /\ new \notin live /\ new # None
      /\ new[1] = f /\ \A g \in Field \ {f} : new \notin Numbered(g)
  <2>1. new \in Numbered(f) /\ new \notin live
    BY <1>5 DEF Unused, Numbered
  <2> QED  BY <2>1, ObjectsAre
<1>7. /\ call'[t].pc = "alloc" /\ call'[t].op = "attach" /\ call'[t].todo = c.todo
      /\ call'[t].k = c.k + 1 /\ c.k + 1 \in 1 .. 5
      /\ \A a \in Actors \ {t} : call'[a] = call[a]
  BY <1>1, <1>2, <1>3 DEF Calls
<1>8. ctx'[f] = new /\ \A g \in Field \ {f} : ctx'[g] = ctx[g]
  BY <1>2, <1>5
<1>9. CallShape(call[t])'
  BY <1>1, <1>2, <1>3, <1>7 DEF CallShape
<1>10. Remains(call[t])'
  BY <1>3, <1>7 DEF Remains
<1>11. Pointers(call[t])'
  <2>1. \A g \in Field : ~Freeing(call[t], g)'
    BY <1>7 DEF Freeing
  <2>2. \A g \in Field : ctx'[g] # None => ctx'[g] \in live'
    BY <1>3, <1>5, <1>8
  <2> QED  BY <2>1, <2>2 DEF Pointers
<1>12. \A g \in Field : Holds(call[t], g)' <=> Holds(c, g) \/ g = f
  <2>1. \A g \in Field : Holds(call[t], g)' <=> \E j \in 1 .. 4 : j < c.k + 1 /\ g = Fields[j]
    BY <1>7 DEF Holds
  <2> QED  BY <1>3, <1>4, <2>1
<1>13. ~Holds(c, f)
  BY <1>3, <1>4
<1>14. /\ Of(f)' = Of(f) \cup {new} /\ new \notin Of(f)
       /\ \A g \in Field \ {f} : Of(g)' = Of(g)
  <2>1. Of(f)' = Of(f) \cup {new} /\ new \notin Of(f)
    BY <1>5, <1>6 DEF Of
  <2>2. \A g \in Field \ {f} : Of(g)' = Of(g)
    BY <1>5, <1>6 DEF Of
  <2> QED  BY <2>1, <2>2
<1>15. \A g \in Field \ {f} : ctx'[g] \in live' <=> ctx[g] \in live
  <2>1. \A g \in Field \ {f} : ctx[g] # new
    BY <1>6 DEF TypeInv
  <2> QED  BY <1>5, <1>8, <2>1
<1>16. Accounts(call[t])'
  <2>1. \A g \in Held : Holds(call[t], g)' <=> ctx'[g] \in live'
    BY <1>3, <1>5, <1>8, <1>12, <1>15, FieldsAre
  <2>2. \A g \in Items : Holds(call[t], g)' => ctx'[g] \in live'
    BY <1>3, <1>5, <1>8, <1>12, <1>15, FieldsAre
  <2>3. ASSUME NEW g \in Items
        PROVE  Cardinality(Of(g)') = detaches + (IF Holds(call[t], g)' THEN 1 ELSE 0)
    <3>1. g \in Field /\ Cardinality(Of(g)) = detaches + (IF Holds(c, g) THEN 1 ELSE 0)
      BY <1>3, FieldsAre
    <3>2. CASE g = f
      <4>1. IsFiniteSet(Of(f))
        BY <1>2, FS_Subset DEF Of
      <4>2. Cardinality(Of(f)') = Cardinality(Of(f)) + 1
        BY <1>14, <4>1, FS_AddElement
      <4> QED  BY <1>2, <1>12, <1>13, <3>1, <3>2, <4>2
    <3>3. CASE g # f
      BY <1>12, <1>14, <3>1, <3>3
    <3> QED  BY <3>2, <3>3
  <2> QED  BY <1>1, <2>1, <2>2, <2>3 DEF Accounts
<1>17. \A g \in Held : Of(g)' \subseteq {ctx'[g]}
  <2>1. f \in Held => Of(f) = {}
    BY <1>3, <1>13
  <2> QED  BY <1>2, <1>8, <1>14, <2>1, FieldsAre
<1>18. Alone(t)'
  BY <1>2, <1>7, StaysAlone
<1> QED
  BY <1>9, <1>10, <1>11, <1>16, <1>17, <1>18 DEF ResourceInv, CallInv

(* An attach that fails undoes the fields it holds; the pointer it may null  *)
(* is to none of them.                                                       *)
LEMMA AllocFailKeeps ==
  ASSUME TypeInv, ResourceInv, ~overlapped, NEW t \in Actors, AllocFail(t),
         ~halted, UNCHANGED <<dev, halted>>
  PROVE  ResourceInv'
<1> DEFINE c == call[t]
<1>1. /\ c.pc = "alloc" /\ c.k <= Len(Fields)
      /\ call' = [call EXCEPT ![t].op = "undo", ![t].pc = "release",
                              ![t].todo = Undone(c.k)]
      /\ ctx' \in AfterFail(Fields[c.k])
      /\ UNCHANGED <<active, live, detaches, overlapped>>
  BY DEF AllocFail
<1>2. /\ call \in [Actors -> Calls] /\ c \in Calls /\ Alone(t)
      /\ \A f \in Held : Of(f) \subseteq {ctx[f]}
      /\ ctx \in [Field -> Objects \cup {None}] /\ live \subseteq Objects
  BY <1>1, CallKnows, ActsAlone DEF TypeInv
<1>3. /\ c.k \in 1 .. 4 /\ c.op = "attach" /\ ~active /\ dev[Disk] # "gone"
      /\ \A f \in Field : ctx[f] # None => ctx[f] \in live
      /\ \A f \in Field : Holds(c, f) <=> \E j \in 1 .. (c.k - 1) : f = Fields[j]
      /\ ~Holds(c, Fields[c.k])
      /\ \A f \in Held  : Holds(c, f) <=> ctx[f] \in live
      /\ \A f \in Items :
           /\ Holds(c, f) => ctx[f] \in live
           /\ Cardinality(Of(f)) = detaches + (IF Holds(c, f) THEN 1 ELSE 0)
      /\ \A f \in Held : ctx[f] \notin live => Of(f) = {}
  BY <1>1, AllocKnows
<1>4. PICK f \in Field : f = Fields[c.k]
  BY <1>3, FieldsAre
<1>5. \A g \in Field : ctx'[g] = ctx[g] \/ (g = f /\ ctx'[g] = None)
  BY <1>1, <1>2, <1>4 DEF AfterFail
<1>6. /\ Undone(c.k) \in Seq(Field) /\ Distinct(Undone(c.k))
      /\ Range(Undone(c.k)) = {Fields[j] : j \in 1 .. (c.k - 1)}
  BY <1>3, UndoneIs
<1>7. /\ call'[t].pc = "release" /\ call'[t].op = "undo"
      /\ call'[t].todo = Undone(c.k)
      /\ \A a \in Actors \ {t} : call'[a] = call[a]
  BY <1>1, <1>2 DEF Calls
<1>8. CallShape(call[t])'
  BY <1>1, <1>3, <1>6, <1>7 DEF CallShape
<1>9. Remains(call[t])'
  BY <1>3, <1>7 DEF Remains
<1>10. \A g \in Field : ~Freeing(call[t], g)'
  BY <1>7 DEF Freeing
<1>11. None \notin live
  BY <1>2, ObjectsAre
<1>12. Pointers(call[t])'
  <2>1. \A g \in Field : ctx'[g] # None => ctx'[g] \in live
    BY <1>3, <1>5
  <2> QED  BY <1>1, <1>10, <2>1 DEF Pointers
<1>13. \A g \in Field : Holds(call[t], g)' <=> Holds(c, g)
  <2>1. \A g \in Field : Holds(call[t], g)' <=> g \in Range(Undone(c.k))
    BY <1>7, <1>10 DEF Holds, Todo
  <2> QED  BY <1>3, <1>6, <2>1
<1>14. ~Holds(c, f)
  BY <1>3, <1>4
<1>15. \A g \in Field : Of(g)' = Of(g)
  BY <1>1 DEF Of
<1>16. Accounts(call[t])'
  <2>1. \A g \in Held : Holds(call[t], g)' <=> ctx'[g] \in live'
    BY <1>1, <1>3, <1>5, <1>11, <1>13, <1>14, FieldsAre
  <2>2. \A g \in Items : Holds(call[t], g)' => ctx'[g] \in live'
    BY <1>1, <1>3, <1>5, <1>13, <1>14, FieldsAre
  <2>3. \A g \in Items :
          Cardinality(Of(g)') = detaches' + (IF Holds(call[t], g)' THEN 1 ELSE 0)
    BY <1>1, <1>3, <1>13, <1>15, FieldsAre
  <2> QED  BY <2>1, <2>2, <2>3 DEF Accounts
<1>17. \A g \in Held : Of(g)' \subseteq {ctx'[g]}
  BY <1>2, <1>3, <1>5, <1>14, <1>15, FieldsAre
<1>18. Alone(t)'
  BY <1>2, <1>7, StaysAlone
<1> QED
  BY <1>8, <1>9, <1>12, <1>16, <1>17, <1>18 DEF ResourceInv, CallInv

(* A call that enters alone takes nothing yet.                               *)
LEMMA EnterKeeps ==
  ASSUME TypeInv, ResourceInv, NEW t \in Actors, NEW op, NEW named,
         NEW pc \in {"dispatch", "flush", "release"}, NEW todo,
         Enter(t, op, named, pc, todo), ~overlapped',
         UNCHANGED <<active, ctx, live, detaches>>,
         op # "cleanup" => dev' = dev /\ pc = "dispatch",
         CallShape(call[t])', Remains(call[t])'
  PROVE  ResourceInv'
<1>1. /\ Alone(t) /\ call[t] = IdleCall /\ CallInv(call[t]) /\ call \in [Actors -> Calls]
      /\ \A f \in Held : Of(f) \subseteq {ctx[f]}
      /\ call' = [call EXCEPT ![t] =
           [op |-> op, named |-> named, pc |-> pc, k |-> 1, todo |-> todo]]
  BY EntersAlone DEF TypeInv
<1>2. /\ call'[t].op = op /\ call'[t].pc = pc
      /\ \A a \in Actors \ {t} : call'[a] = call[a]
  BY <1>1
<1>3. \A f \in Field : ~Freeing(call[t], f) /\ ~Freeing(call[t], f)'
  BY <1>1, <1>2 DEF Freeing, IdleCall
<1>4. Pointers(call[t])'
  BY <1>1, <1>3 DEF CallInv, Pointers
<1>5. \A f \in Field : Of(f)' = Of(f)
  BY DEF Of
<1>6. Accounts(call[t])'
  <2> SUFFICES ASSUME op # "cleanup", dev'[Disk] # "gone"
               PROVE  /\ \A f \in Held  : Holds(call[t], f)' <=> ctx[f] \in live
                      /\ \A f \in Items :
                           /\ Holds(call[t], f)' => ctx[f] \in live
                           /\ Cardinality(Of(f)) =
                                detaches + (IF Holds(call[t], f)' THEN 1 ELSE 0)
    BY <1>2 DEF Accounts, Of
  <2>1. \A f \in Field : (Holds(call[t], f) <=> active) /\ (Holds(call[t], f)' <=> active)
    <3>1. \A f \in Field : Holds(call[t], f) <=> active
      BY <1>1 DEF Holds, IdleCall
    <3>2. \A f \in Field : Holds(call[t], f)' <=> active
      BY <1>2 DEF Holds
    <3> QED  BY <3>1, <3>2
  <2>2. /\ \A f \in Held : Holds(call[t], f) <=> ctx[f] \in live
        /\ \A f \in Items :
             /\ Holds(call[t], f) => ctx[f] \in live
             /\ Cardinality(Of(f)) = detaches + (IF Holds(call[t], f) THEN 1 ELSE 0)
    BY <1>1 DEF CallInv, Accounts, IdleCall
  <2> QED  BY <2>1, <2>2, FieldsAre
<1>7. \A f \in Held : Of(f)' \subseteq {ctx'[f]}
  BY <1>1, <1>5, FieldsAre
<1>8. Alone(t)'
  BY <1>1, <1>2, StaysAlone
<1> QED  BY <1>4, <1>6, <1>7, <1>8 DEF ResourceInv, CallInv

LEMMA FindKeeps ==
  ASSUME ListInv, TypeInv, ResourceInv, ~halted, NEW t \in Callers, Find(t),
         UNCHANGED dvars, ~overlapped'
  PROVE  ResourceInv'
<1>1. t \in Actors
  BY DEF Actors
<1>2. dev[Disk] # "gone" /\ dev' = dev
  BY FoundListed DEF Find, dvars
<1>3. PICK op \in {"attach", "detach", "flush"}, d \in Disks : Enter(t, op, d, "dispatch", <<>>)
  BY DiskAssumption DEF Find, Present
<1>4. call'[t] = [op |-> op, named |-> d, pc |-> "dispatch", k |-> 1, todo |-> <<>>]
  BY <1>1, <1>3, EntersAlone DEF TypeInv
<1>5. CallShape(call[t])'
  BY <1>4, TodoLists DEF CallShape
<1>6. Remains(call[t])'
  BY <1>2, <1>4 DEF Remains
<1> QED  BY <1>1, <1>2, <1>3, <1>5, <1>6, EnterKeeps DEF Find

LEMMA CleanupKeeps ==
  ASSUME ListInv, TypeInv, ResourceInv, ~halted, Cleanup, ~overlapped'
  PROVE  ResourceInv'
<1>1. Remover \in Actors
  BY DEF Actors
<1>2. PICK pc \in {"flush", "release"} :
        Enter(Remover, "cleanup", Disk, pc, <<"map", "file", "popItem", "syncItem">>)
  BY DEF Cleanup
<1>3. call'[Remover] = [op |-> "cleanup", named |-> Disk, pc |-> pc, k |-> 1,
                        todo |-> <<"map", "file", "popItem", "syncItem">>]
  BY <1>1, <1>2, EntersAlone DEF TypeInv
<1>4. ~halted' => dev'[Disk] = "gone"
  BY DiskAssumption DEF Cleanup, Withdraw, ListInv
<1>5. CallShape(call[Remover])'
  BY <1>3, TodoLists DEF CallShape
<1>6. Todo(call[Remover])' = Field
  BY <1>3, TodoLists DEF Todo
<1>7. Remains(call[Remover])'
  BY <1>3, <1>4, <1>6 DEF Remains
<1> QED  BY <1>1, <1>2, <1>5, <1>7, EnterKeeps DEF Cleanup

(* What happens to the list, and what users do, leaves the resources alone.  *)
LEMMA OthersKeep ==
  ASSUME TypeInv, ResourceInv, ~halted,
         UNCHANGED <<active, ctx, live, call, overlapped, detaches>>,
         dev'[Disk] = "gone" <=> dev[Disk] = "gone"
  PROVE  ResourceInv'
<1> SUFFICES ASSUME ~overlapped
             PROVE  /\ \A f \in Held : Of(f)' \subseteq {ctx'[f]}
                    /\ \E t \in Actors : Alone(t)' /\ CallInv(call[t])'
  BY DEF ResourceInv
<1>1. PICK t \in Actors : Alone(t) /\ CallInv(call[t])
  BY DEF ResourceInv
<1>2. \A f \in Held : Of(f) \subseteq {ctx[f]}
  BY DEF ResourceInv
<1>3. \A f \in Held : Of(f)' \subseteq {ctx'[f]}
  BY <1>2 DEF Of
<1>4. Alone(t)'
  BY <1>1 DEF Alone
<1>5. CallShape(call[t])' /\ Pointers(call[t])'
  BY <1>1 DEF CallInv, CallShape, Pointers, Freeing, Todo
<1>6. Accounts(call[t])'
  BY <1>1 DEF CallInv, Accounts, Holds, Freeing, Todo, Of
<1>7. Remains(call[t])'
  BY <1>1 DEF CallInv, Remains, Todo
<1> QED  BY <1>3, <1>4, <1>5, <1>6, <1>7 DEF CallInv

LEMMA ResourceInit == ASSUME Init PROVE ResourceInv
<1>1. Remover \in Actors /\ \A t \in Actors : call[t] = IdleCall
  BY DEF Init, Actors
<1>2. \A f : Of(f) = {}
  BY DEF Init, Of
<1>3. CallShape(call[Remover])
  <2>1. /\ call[Remover].todo = <<>>
        /\ call[Remover].pc = "idle" /\ call[Remover].op = "none"
    BY <1>1 DEF IdleCall
  <2>2. <<>> \in Seq(Field) /\ Distinct(<<>>)
    BY TodoLists
  <2> QED  BY <2>1, <2>2, Zenon DEF CallShape
<1>4. Pointers(call[Remover]) /\ Remains(call[Remover])
  BY <1>1, DiskAssumption DEF Init, DInit, Pointers, Remains, Freeing, IdleCall
<1>5. Accounts(call[Remover])
  <2>1. \A f \in Field : ~Holds(call[Remover], f)
    BY <1>1 DEF Init, Holds, IdleCall
  <2> QED  BY <1>1, <1>2, <2>1, FS_EmptySet, FieldsAre DEF Init, Accounts
<1> QED
  BY <1>1, <1>2, <1>3, <1>4, <1>5 DEF ResourceInv, Alone, CallInv

LEMMA ResourceNext ==
  ASSUME ListInv, TypeInv, ResourceInv, [Next]_vars
  PROVE  ResourceInv'
<1> SUFFICES ASSUME ~overlapped' PROVE ResourceInv'
  BY DEF ResourceInv
<1>1. CASE UNCHANGED vars
  BY <1>1
  DEF ResourceInv, Of, Alone, CallInv, CallShape, Pointers, Accounts, Remains,
      Holds, Freeing, Todo, vars, dvars, kvars, halted
<1>2. ASSUME NEW t \in Callers, Find(t), UNCHANGED dvars, ~halted
      PROVE  ResourceInv'
  BY <1>2, FindKeeps
<1>3. ASSUME NEW t \in Actors, CallStep(t), UNCHANGED dvars, ~halted
      PROVE  ResourceInv'
  <2>1. ~overlapped
    BY <1>3
    DEF CallStep, Refuse, AttachBegin, AllocOk, AllocFail, Activate, ToFlush,
        Flushed, Free, Clear, NothingToFree, Released
  <2>2. UNCHANGED <<dev, halted>>
    BY <1>3 DEF dvars, halted
  <2> QED
    BY <1>3, <2>1, <2>2, RefuseKeeps, AttachBeginKeeps, AllocOkKeeps,
       AllocFailKeeps, ActivateKeeps, ToFlushKeeps, FlushedKeeps, FreeKeeps,
       ClearKeeps, NothingToFreeKeeps, ReleasedKeeps
    DEF CallStep
<1>4. ASSUME NEW u \in Users, UserStep(u), UNCHANGED dvars, ~halted
      PROVE  ResourceInv'
  BY <1>4, OthersKeep DEF UserStep, UserEnter, UserTest, UserDeref, dvars
<1>5. CASE Cleanup /\ ~halted
  BY <1>5, CleanupKeeps
<1>6. ASSUME NEW d \in Disks, AddStep(d), UNCHANGED kvars, ~halted
      PROVE  ResourceInv'
  <2>1. dev'[Disk] = "gone" <=> dev[Disk] = "gone"
    BY <1>6, DiskAssumption DEF AddStep, AddLink, AddDone, AddFails, ListInv
  <2> QED  BY <1>6, <2>1, OthersKeep DEF kvars
<1>7. ASSUME NEW d \in Disks \ {Disk}, Withdraw(d, "absent"), UNCHANGED kvars, ~halted
      PROVE  ResourceInv'
  <2>1. dev'[Disk] = dev[Disk]
    BY <1>7, DiskAssumption DEF Withdraw, ListInv
  <2> QED  BY <1>7, <2>1, OthersKeep DEF kvars
<1> QED
  BY <1>1, <1>2, <1>3, <1>4, <1>5, <1>6, <1>7 DEF Next

-----------------------------------------------------------------------------
(* Theorems *)

LEMMA LifecycleInvariance == Spec => []IndInv
<1>1. Init => IndInv
  BY ListInit, TypeInit, OwnersInit, ResourceInit DEF Init, IndInv
<1>2. IndInv /\ [Next]_vars => IndInv'
  BY ListNext, TypeNext, OwnersNext, ResourceNext DEF IndInv
<1> QED  BY <1>1, <1>2, PTL DEF Spec

(* For every set of disks, whatever comes, fails and goes at whatever place, *)
(* the links of g_cache_disk_list are those of the disks that are present.   *)
THEOREM ListIsExact == Spec => []ListExact
<1>1. IndInv => ListExact
  BY RingIsExact DEF IndInv
<1> QED  BY <1>1, LifecycleInvariance, PTL

(* The disk whose listing or removal stops the system is one whose own add   *)
(* has failed.                                                               *)
THEOREM HaltNeedsFailedAdd == Spec => []HaltsAfterFailedAdd
<1>1. IndInv => HaltsAfterFailedAdd
  BY DEF IndInv, ListInv
<1> QED  BY <1>1, LifecycleInvariance, PTL

(* A disk never caches on the partition of one that was added before it.     *)
THEOREM PartitionOfYounger == Spec => []OnlyYoungersPartition
<1>1. IndInv => OnlyYoungersPartition
  BY DEF IndInv, OwnersInv, Younger, OnlyYoungersPartition, Before
<1> QED  BY <1>1, LifecycleInvariance, PTL

(* As long as calls do not overlap, no object is freed twice, and an attach  *)
(* that failed frees what it has.                                            *)
THEOREM NothingFreedTwice == Spec => []FreedOnce
<1>1. ASSUME TypeInv, ResourceInv, ~overlapped, NEW t \in Actors,
             call[t].pc = "release", call[t].todo # <<>>
      PROVE  ctx[Head(call[t].todo)]
               \in live \cup (IF call[t].op = "undo" THEN {} ELSE {None})
  <2>1. CallShape(call[t]) /\ Pointers(call[t])
    BY <1>1, CallKnows
  <2>2. Head(call[t].todo) \in Field
    BY <1>1, <2>1, TailIs DEF CallShape
  <2>3. ~Freeing(call[t], Head(call[t].todo))
    BY <1>1 DEF Freeing
  <2>4. ctx[Head(call[t].todo)] \in live \cup {None}
    BY <2>1, <2>2, <2>3 DEF Pointers
  <2> QED  BY <1>1, <2>4, UndoHolds
<1>2. IndInv => FreedOnce
  BY <1>1 DEF IndInv, FreedOnce
<1> QED  BY <1>2, LifecycleInvariance, PTL

(* What is known between calls.                                              *)
LEMMA IdleKnows ==
  ASSUME IndInv, ~overlapped, AllIdle
  PROVE  /\ Pointers(IdleCall) /\ Accounts(IdleCall) /\ Remains(IdleCall)
         /\ \A f \in Held : Of(f) \subseteq {ctx[f]}
<1>1. \A t \in Actors : call[t] = IdleCall
  BY DEF AllIdle, Busy, IndInv, TypeInv
<1> QED  BY <1>1 DEF IndInv, ResourceInv, CallInv

(* Between calls that do not overlap, a context has its partition and its    *)
(* map if it caches and nothing if it does not, and no dangling pointer.     *)
THEOREM ResourcesAreExact == Spec => []ResourcesMatchActive
<1>1. ASSUME IndInv, ~overlapped, AllIdle
      PROVE  /\ \A f \in Held :
                  Of(f) = IF active /\ Disk \in Present THEN {ctx[f]} ELSE {}
             /\ \A f \in Field : ctx[f] # None => ctx[f] \in live
             /\ active /\ Disk \in Present => \A f \in Field : ctx[f] # None
  <2>1. /\ Pointers(IdleCall) /\ Accounts(IdleCall) /\ Remains(IdleCall)
        /\ \A f \in Held : Of(f) \subseteq {ctx[f]}
    BY <1>1, IdleKnows
  <2>2. \A f \in Field : ctx[f] # None => ctx[f] \in live
    BY <2>1 DEF Pointers, Freeing, IdleCall
  <2>3. None \notin live /\ \A f \in Field : Holds(IdleCall, f) <=> active
    <3>1. None \notin live
      BY <1>1, ObjectsAre DEF IndInv, TypeInv
    <3>2. \A f \in Field : Holds(IdleCall, f) <=> active
      BY DEF Holds, IdleCall
    <3> QED  BY <3>1, <3>2
  <2>4. \A f \in Field : ctx[f] \in live => ctx[f] \in Of(f)
    BY <1>1, ObjectsAre DEF Of, IndInv, TypeInv
  <2>5. \A f \in Held : ctx[f] \notin live => Of(f) = {}
    BY <2>1 DEF Of
  <2>6. dev[Disk] \in DevState
    BY <1>1, DiskAssumption DEF IndInv, ListInv
  <2>7. CASE dev[Disk] = "gone"
    <3>1. Disk \notin Present
      BY <2>7 DEF Present
    <3>2. \A f \in Field : ctx[f] = None
      BY <2>1, <2>7, TodoLists DEF Remains, Todo, IdleCall
    <3> QED  BY <2>2, <2>3, <2>5, <3>1, <3>2, FieldsAre
  <2>8. CASE dev[Disk] # "gone"
    <3>1. /\ \A f \in Held  : active <=> ctx[f] \in live
          /\ \A f \in Items : active => ctx[f] \in live
      BY <2>1, <2>3, <2>8, FieldsAre DEF Accounts, IdleCall
    <3>2. active => Disk \in Present
      BY <1>1, <2>6, <2>8, DiskAssumption DEF IndInv, OwnersInv, Present, DevState
    <3> QED  BY <2>1, <2>2, <2>3, <2>4, <2>5, <3>1, <3>2, FieldsAre
  <2> QED  BY <2>7, <2>8
<1>2. IndInv => ResourcesMatchActive
  BY <1>1 DEF ResourcesMatchActive, Held
<1> QED  BY <1>2, LifecycleInvariance, PTL

(* The work items that exist are those of the attach that is in force and    *)
(* at most one of each kind for every detach.                                *)
THEOREM DetachLeaksAtMostOne == Spec => []AtMostOneLeakPerDetach
<1>1. ASSUME IndInv, ~overlapped, AllIdle, Disk \in Present
      PROVE  \A f \in Items :
               Cardinality(Of(f)) <= detaches + (IF active THEN 1 ELSE 0)
  <2>1. Accounts(IdleCall) /\ detaches \in Nat
    BY <1>1, IdleKnows DEF IndInv, TypeInv
  <2>2. \A f \in Items : Holds(IdleCall, f) <=> active
    BY DEF Holds, IdleCall
  <2>3. dev[Disk] # "gone"
    BY <1>1 DEF Present
  <2>4. \A f \in Items :
          Cardinality(Of(f)) = detaches + (IF active THEN 1 ELSE 0)
    BY <2>1, <2>2, <2>3 DEF Accounts, IdleCall
  <2> QED  BY <2>1, <2>4
<1>2. IndInv => AtMostOneLeakPerDetach
  BY <1>1 DEF AtMostOneLeakPerDetach, Items
<1> QED  BY <1>2, LifecycleInvariance, PTL

=============================================================================
