---------------------------- MODULE MCReadCache ----------------------------
(* Small instances of ReadCache for TLC. *)
EXTENDS ReadCache, TLC

CONSTANTS r1, r2, w1, w2

MCBlocks  == 0 .. 2
MCBlocks2 == 0 .. 1
WorkerSym == Permutations(Workers)

Slot(b, f) == [source_lba |-> b, last_access |-> 0, flags |-> f]

(* One slot is empty and one block is not cached; in the second map one of   *)
(* the cached blocks is pinned and the other was read since the last pass.   *)
MCLoaded == {
  [s \in Slots |-> Slot(s, IF s = N - 1 THEN {} ELSE {"VALID"})],
  [s \in Slots |-> Slot(s, CASE s = 0     -> {"VALID", "PINNED"}
                             [] s = N - 1 -> {"VALID", "ACCESSED"}
                             [] OTHER     -> {})]}

(* Every slot caches the block of its number.                                *)
MCFull == {[s \in Slots |-> Slot(s, {"VALID"})]}

=============================================================================
