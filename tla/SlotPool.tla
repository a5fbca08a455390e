------------------------------ MODULE SlotPool ------------------------------
(***************************************************************************)
(* What the slot protocol of the read cache promises, without probing,     *)
(* reference bits, locks or I/O steps: a slot whose content may be served  *)
(* holds one whole block and keeps it until a single population takes the  *)
(* slot over; that population alone decides what becomes of the slot.      *)
(* ReadCache implements this module (ReadCache!Pool, theorem               *)
(* ImplementsSlotPool).                                                    *)
(***************************************************************************)
EXTENDS Integers

CONSTANTS Slots, Blocks, Workers, NoSlot, NoBlock

VARIABLES
  content,  \* the block whose data a slot holds for readers, or NoBlock
  held      \* the slot a population has taken over, or NoSlot

pool == <<content, held>>

PoolInit ==
  /\ content \in [Slots -> Blocks \cup {NoBlock}]
  /\ held = [w \in Workers |-> NoSlot]

(* Only a slot that caches a block is taken over. *)
Take(w, s) ==
  /\ held[w] = NoSlot
  /\ content[s] # NoBlock
  /\ content' = [content EXCEPT ![s] = NoBlock]
  /\ held' = [held EXCEPT ![w] = s]

Fill(w, b) ==
  /\ held[w] # NoSlot
  /\ content' = [content EXCEPT ![held[w]] = b]
  /\ held' = [held EXCEPT ![w] = NoSlot]

Drop(w) ==
  /\ held[w] # NoSlot
  /\ held' = [held EXCEPT ![w] = NoSlot]
  /\ UNCHANGED content

PoolNext ==
  \E w \in Workers :
    \/ \E s \in Slots : Take(w, s)
    \/ \E b \in Blocks : Fill(w, b)
    \/ Drop(w)

PoolSpec == PoolInit /\ [][PoolNext]_pool

=============================================================================
