----------------------------- MODULE RangeLoop -----------------------------
(***************************************************************************)
(* One read request, from its bytes on the source disk to the bytes of the *)
(* partition and back: the three loops that cut it into blocks, in         *)
(* IsRangeFullyCached, in ServeReadFromSsdCache and in                     *)
(* CacheFilterReadCompletionRoutine.  Populations and flushes go on beside *)
(* it.  A lookup may miss a block that is cached, since it looks at its    *)
(* probes only.  ReadCache has these loops as lo, hi and chk.              *)
(***************************************************************************)
EXTENDS Partition, Sequences

VARIABLES
  start, len,   \* Parameters.Read.DeviceOffset and .Length
  stage,        \* the loop the request is in
  addr,         \* lba of the check, current_lba of the copy, aligned_lba of the fill
  remaining,    \* bytes_remaining
  offset,       \* offset_in_buffer
  buf,          \* the output buffer, with room behind its end
  checked,      \* block numbers IsRangeFullyCached has found
  served,       \* block numbers ServeReadFromSsdCache has read, in order
  filled        \* block numbers given to CachePopulateAsync, in order

rvars == <<start, len, stage, addr, remaining, offset, buf, checked, served, filled>>
vars  == <<pvars, rvars>>

Unset   == -1  \* a byte of the buffer nobody has written
Overrun == -2  \* a byte from beyond the end of temp_buffer

Room == 0 .. (DiskSize + sb.block_size - 1)

Init ==
  /\ PInit
  /\ start = 0 /\ len = 0
  /\ stage = "idle"
  /\ addr = 0 /\ remaining = 0 /\ offset = 0
  /\ buf = [i \in Room |-> Unset]
  /\ checked = {} /\ served = <<>> /\ filled = <<>>

Aligned(a) == (a \div block_size) * block_size
End        == start + len

Cached(b)  == {s \in MapSlots : map[s] = b}

-----------------------------------------------------------------------------
(* CacheFilterEvtIoRead: a request within the disk, while caching is active; *)
(* one of no bytes is completed at once.                                     *)
Arrive ==
  /\ stage = "idle" /\ session = "attached"
  /\ start' \in 0 .. (DiskSize - 1)
  /\ len' \in 0 .. (DiskSize - start')
  /\ stage' = IF len' = 0 THEN "done" ELSE "check"
  /\ addr' = start'
  /\ UNCHANGED <<pvars, remaining, offset, buf, checked, served, filled>>

-----------------------------------------------------------------------------
(* IsRangeFullyCached *)

CheckHit ==
  /\ stage = "check" /\ addr < End
  /\ Cached(addr \div block_size) # {}
  /\ checked' = checked \cup {addr \div block_size}
  /\ addr' = addr + block_size
  /\ UNCHANGED <<pvars, start, len, stage, remaining, offset, buf, served, filled>>

CheckMiss ==
  /\ stage = "check" /\ addr < End
  /\ stage' = "forward"
  /\ UNCHANGED <<pvars, start, len, addr, remaining, offset, buf, checked, served, filled>>

BugCheckEnd ==
  /\ stage = "check" /\ addr + block_size >= End
  /\ stage' = "serve"
  /\ addr' = start
  /\ remaining' = len
  /\ UNCHANGED <<pvars, start, len, offset, buf, checked, served, filled>>
CheckEnd ==
  /\ stage = "check" /\ addr >= End
  /\ stage' = "serve"
  /\ addr' = start
  /\ remaining' = len
  /\ UNCHANGED <<pvars, start, len, offset, buf, checked, served, filled>>

-----------------------------------------------------------------------------
(* ServeReadFromSsdCache *)

BugCopySize(rest, within) == IF rest < block_size THEN rest ELSE block_size
CopySize(rest, within) ==
  IF rest < block_size - within THEN rest ELSE block_size - within

(* Byte j of temp_buffer, which CacheReadBlockFromSsd has filled from slot s. *)
Temp(s, j) ==
  IF j < block_size THEN part[sb.data_offset * SectorSize + s * block_size + j]
  ELSE Overrun

ServeBlock ==
  /\ stage = "serve" /\ remaining > 0
  /\ \E s \in Cached(addr \div block_size) :
       LET within == addr - Aligned(addr)
           size   == CopySize(remaining, within)
       IN  /\ SuperblockOk /\ InPartition(s, block_size)
           /\ buf' = [i \in Room |-> IF i \in Span(offset, size)
                                      THEN Temp(s, within + i - offset) ELSE buf[i]]
           /\ served' = Append(served, addr \div block_size)
           /\ offset' = offset + size
           /\ remaining' = remaining - size
           /\ addr' = addr + size
  /\ UNCHANGED <<pvars, start, len, stage, checked, filled>>

(* No buffer, a block gone since the check, or a failed SSD read. *)
ServeFail ==
  /\ stage = "serve" /\ remaining > 0
  /\ stage' = "forward"
  /\ UNCHANGED <<pvars, start, len, addr, remaining, offset, buf, checked, served, filled>>

ServeEnd ==
  /\ stage = "serve" /\ remaining = 0
  /\ stage' = "done"
  /\ UNCHANGED <<pvars, start, len, addr, remaining, offset, buf, checked, served, filled>>

-----------------------------------------------------------------------------
(* CacheFilterForwardRead and CacheFilterReadCompletionRoutine *)

BugFillStart(a) == a
FillStart(a) == Aligned(a)

Forwarded ==
  /\ stage = "forward"
  /\ buf' = [i \in Room |-> IF i < len THEN start + i ELSE buf[i]]
  /\ stage' = "fill"
  /\ addr' = FillStart(start)
  /\ UNCHANGED <<pvars, start, len, remaining, offset, checked, served, filled>>

ForwardFailed ==
  /\ stage = "forward"
  /\ stage' = "done"
  /\ UNCHANGED <<pvars, start, len, addr, remaining, offset, buf, checked, served, filled>>

FillBlock ==
  /\ stage = "fill" /\ addr < End
  /\ filled' = Append(filled, addr \div block_size)
  /\ addr' = addr + block_size
  /\ UNCHANGED <<pvars, start, len, stage, remaining, offset, buf, checked, served>>

FillEnd ==
  /\ stage = "fill" /\ addr >= End
  /\ stage' = "done"
  /\ UNCHANGED <<pvars, start, len, addr, remaining, offset, buf, checked, served, filled>>

RequestStep ==
  \/ Arrive     \/ CheckHit  \/ CheckMiss \/ CheckEnd
  \/ ServeBlock \/ ServeFail \/ ServeEnd
  \/ Forwarded  \/ ForwardFailed \/ FillBlock \/ FillEnd

Next ==
  \/ RequestStep
  \/ PartitionStep /\ UNCHANGED rvars
  \/ Detach /\ stage \in {"idle", "done"} /\ UNCHANGED rvars

Spec == Init /\ [][Next]_vars

-----------------------------------------------------------------------------
(* Properties *)

(* The blocks the request touches, as ReadCache has them. *)
lo == start \div sb.block_size
hi == (End - 1) \div sb.block_size

UpTo(b) == [i \in 1 .. (b - lo + 1) |-> lo + i - 1]

(* What the copy loop has written is the requested bytes, in order and       *)
(* without a gap, and it never writes beyond the length of the request nor   *)
(* reads beyond the end of the block buffer, whatever the alignment.         *)
CopiedPrefix ==
  stage = "serve" =>
    \A i \in Room : buf[i] = IF i < offset THEN start + i ELSE Unset

(* A request served from the SSD has all its bytes, read from each of its    *)
(* blocks once, in order: what ServeHit and ServeEnd of ReadCache do.        *)
ServedWhole ==
  stage = "done" /\ len > 0 /\ served # <<>> /\ remaining = 0 =>
    /\ served = UpTo(hi)
    /\ \A i \in Room : buf[i] = IF i < len THEN start + i ELSE Unset

(* The check that lets a request be served from the SSD has looked up all of *)
(* its blocks but perhaps the last, although io.c:78 speaks of every block:  *)
(* what ReadArrive of ReadCache assumes.                                     *)
CheckedButLast ==
  stage = "serve" => checked \in {lo .. hi, lo .. (hi - 1)} /\ lo \in checked

(* After a read from the source disk each of its blocks is offered to        *)
(* CachePopulateAsync once, in order: FillQueue and FillEnd of ReadCache.    *)
FilledWhole == stage = "done" /\ filled # <<>> => filled = UpTo(hi)

=============================================================================
