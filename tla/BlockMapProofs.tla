--------------------------- MODULE BlockMapProofs ---------------------------
(***************************************************************************)
(* What the operators of BlockMap do to a map, for every number of slots:  *)
(* the lemmas the proofs about ReadCache rest on.                          *)
(***************************************************************************)
EXTENDS BlockMap, TLAPS

Maps == [Slots -> Entry]

(* The entries that matter to the protocol are as in m: only last_access     *)
(* and the reference bits may differ.                                        *)
SameEntries(m, n) ==
  \A t \in Slots : /\ Valid(n, t) <=> Valid(m, t)
                   /\ Populating(n, t) <=> Populating(m, t)
                   /\ Pinned(n, t) <=> Pinned(m, t)
                   /\ n[t].source_lba = m[t].source_lba

(* A hit only refreshes the entry it finds (CacheLookup).                    *)
LEMMA TouchedEntries ==
  ASSUME NEW m \in Maps, NEW s \in Slots, NEW now \in Nat
  PROVE  /\ Touched(m, s, now) \in Maps
         /\ SameEntries(m, Touched(m, s, now))
BY DEF Maps, Entry, Flag, Touched, SameEntries, Valid, Populating, Pinned

(* The CLOCK scan invalidates its victim and changes no other entry but for  *)
(* reference bits (LruClockFindVictim).                                      *)
LEMMA EvictedEntries ==
  ASSUME NEW m \in Maps, NEW cur \in Slots, NEW v \in Slots
  PROVE  /\ Evicted(m, cur, v) \in Maps
         /\ ~Valid(Evicted(m, cur, v), v)
         /\ \A t \in Slots :
              /\ Valid(Evicted(m, cur, v), t) <=> Valid(m, t) /\ t # v
              /\ Populating(Evicted(m, cur, v), t) <=> Populating(m, t)
              /\ Pinned(Evicted(m, cur, v), t) <=> Pinned(m, t)
              /\ Evicted(m, cur, v)[t].source_lba = m[t].source_lba
BY DEF Maps, Entry, Flag, Evicted, Valid, Populating, Pinned

(* A victim is VALID, not being populated and not pinned.                    *)
LEMMA VictimEvictable ==
  ASSUME NEW m, NEW cur, NEW v, IsVictim(m, cur, v)
  PROVE  v \in Slots /\ Valid(m, v) /\ ~Populating(m, v) /\ ~Pinned(m, v)
BY DEF IsVictim, Unreferenced, Evictable

(* Marking a slot concerns that slot alone.                                  *)
LEMMA MarkedEntries ==
  ASSUME NEW m \in Maps, NEW s \in Slots
  PROVE  /\ Marked(m, s) \in Maps
         /\ ~Valid(Marked(m, s), s) /\ Populating(Marked(m, s), s)
         /\ \A t \in Slots \ {s} : Marked(m, s)[t] = m[t]
BY DEF Maps, Entry, Flag, Marked, Valid, Populating

(* Publishing leaves exactly the slot's entry VALID, for the block given.    *)
LEMMA PublishedEntries ==
  ASSUME NEW m \in Maps, NEW s \in Slots, NEW b \in Blocks, NEW now \in Nat
  PROVE  /\ Published(m, s, b, now) \in Maps
         /\ Valid(Published(m, s, b, now), s)
         /\ ~Populating(Published(m, s, b, now), s)
         /\ Published(m, s, b, now)[s].source_lba = b
         /\ \A t \in Slots \ {s} : Published(m, s, b, now)[t] = m[t]
BY DEF Maps, Entry, Flag, Published, Valid, Populating

(* Aborting leaves the slot neither VALID nor POPULATING.                    *)
LEMMA RestoredEntries ==
  ASSUME NEW m \in Maps, NEW s \in Slots
  PROVE  /\ Restored(m, s) \in Maps
         /\ ~Valid(Restored(m, s), s) /\ ~Populating(Restored(m, s), s)
         /\ \A t \in Slots \ {s} : Restored(m, s)[t] = m[t]
BY DEF Maps, Entry, Flag, Restored, Valid, Populating

(* The hand stays on the map.                                                *)
LEMMA NextCursorInRange ==
  ASSUME NEW v \in Slots
  PROVE  NextCursor(v) = IF v = N - 1 THEN 0 ELSE v + 1
BY NAssumption DEF Slots, NextCursor

=============================================================================
