----------------------------- MODULE MCRestart -----------------------------
(* One reader and one population.  In the first map a slot is empty, and     *)
(* stays so; in the second both slots cache block 1, as two populations at   *)
(* once may have left them, and block 0 is not cached.                       *)
EXTENDS Restart
CONSTANTS r1, w1
MCReaders == {r1}
MCWorkers == {w1}
MCBlocks  == 0 .. 1

Slot(b, f) == [source_lba |-> b, last_access |-> 0, flags |-> f]
MCLoaded ==
  { [s \in Slots |-> Slot(s, IF s = 0 THEN {"VALID"} ELSE {})],
    [s \in Slots |-> Slot(1, {"VALID"})] }
=============================================================================
