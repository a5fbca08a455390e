------------------------------ MODULE MCLoops ------------------------------
(* The loops of the code, from every input of these sets.  The two models    *)
(* share no state: a behaviour is one call of a loop over the block map, or  *)
(* one request and its partition.                                            *)
EXTENDS MapLoops, RangeLoop

(* Every map of N slots over three blocks, two of which prefer one slot, for *)
(* the lookup; every map, every hand and three times of access for the scan. *)
MCBlocks == {0, N - 1, 2 * N - 1}
MCLookupMaps ==
  [Slots -> [source_lba : MCBlocks, last_access : {0}, flags : SUBSET Flag]]
MCScanMaps ==
  [Slots -> [source_lba : {0}, last_access : 0 .. 2, flags : SUBSET Flag]]

(* Three layouts, one of blocks that are no power of 2, one whose last slot  *)
(* is not on the partition; the index of the fourth does not fit a word.     *)
MCGeometries == { [block_size |-> 4, total |-> 3], [block_size |-> 3, total |-> 2],
                  [block_size |-> 2, total |-> 2], [block_size |-> 4, total |-> 6] }

VARIABLE side

MCInit ==
  \/ side = "map"   /\ sb = Foreign /\ Init /\ LoopInit
  \/ /\ side = "range" /\ op = "lookup" /\ lba = 0
     /\ map0 = [s \in Slots |-> [source_lba |-> 0, last_access |-> 0, flags |-> {}]]
     /\ LoopInit /\ Init
MCNext ==
  \/ side = "map"   /\ LoopNext /\ UNCHANGED <<vars, side>>
  \/ side = "range" /\ Next     /\ UNCHANGED <<lvars, side>>
MCSpec == MCInit /\ [][MCNext]_<<vars, lvars, side>>
=============================================================================
