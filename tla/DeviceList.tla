----------------------------- MODULE DeviceList -----------------------------
(***************************************************************************)
(* The list of the CACHE_DISK_CONTEXTs, g_cache_disk_list, link by link:   *)
(* device add, the failure of an add after the context was listed, and the *)
(* removal of a device.  The PnP manager adds and removes different disks  *)
(* at the same time; each change of the list is a critical section of      *)
(* g_cache_disk_list_lock.                                                 *)
(*                                                                         *)
(* External: InsertTailList and RemoveEntryList of the WDK stop the system *)
(* when the neighbours of an entry do not point to it.  A device whose add *)
(* failed is deleted by the framework, with its cleanup callback.          *)
(***************************************************************************)
EXTENDS Integers, Sequences, SequencesExt

CONSTANTS
  Disks,    \* the disks the driver is asked to filter
  ListHead  \* &g_cache_disk_list

ASSUME HeadAssumption == ListHead \notin Disks

VARIABLES
  dev,      \* "absent", "linked" (in EvtDeviceAdd), "added", "failed", "gone"
  flink,    \* Flink of the head and of each global_list_entry
  blink,    \* Blink
  haltedBy, \* the disk whose listing or removal stopped the system
  order     \* history: the disks that should be listed, in order of addition

dvars == <<dev, flink, blink, haltedBy, order>>

(* The check of a list operation has stopped the system. *)
halted == haltedBy # {}

Nodes == Disks \cup {ListHead}

(* DriverEntry *)
DInit ==
  /\ dev = [d \in Disks |-> "absent"]
  /\ flink = [n \in Nodes |-> ListHead]
  /\ blink = [n \in Nodes |-> ListHead]
  /\ haltedBy = {}
  /\ order = <<>>

(* A disk is listed once. *)
Without(list, d) ==
  IF d \in Range(list) THEN RemoveAt(list, CHOOSE i \in DOMAIN list : list[i] = d)
                       ELSE list

Present == {d \in Disks : dev[d] \in {"linked", "added", "failed"}}

-----------------------------------------------------------------------------
(* CacheFilterEvtDeviceAdd *)

(* The context is zeroed, and InsertTailList. *)
AddLink(d) ==
  /\ dev[d] = "absent"
  /\ dev' = [dev EXCEPT ![d] = "linked"]
  /\ flink' = [flink EXCEPT ![d] = ListHead, ![blink[ListHead]] = d]
  /\ blink' = [blink EXCEPT ![d] = blink[ListHead], ![ListHead] = d]
  /\ haltedBy' = IF flink[blink[ListHead]] # ListHead THEN {d} ELSE {}
  /\ order' = Append(order, d)

(* RemoveEntryList leaves the links of the entry itself as they are. *)
RemoveEntryList(d) ==
  /\ haltedBy' = IF flink[blink[d]] # d \/ blink[flink[d]] # d THEN {d} ELSE {}
  /\ flink' = IF halted' THEN flink ELSE [flink EXCEPT ![blink[d]] = flink[d]]
  /\ blink' = IF halted' THEN blink ELSE [blink EXCEPT ![flink[d]] = blink[d]]

AddDone(d) ==
  /\ dev[d] = "linked"
  /\ dev' = [dev EXCEPT ![d] = "added"]
  /\ UNCHANGED <<flink, blink, haltedBy, order>>

(* WdfIoQueueCreate has failed. *)
BugAddFails(d) ==
  /\ dev[d] = "linked"
  /\ dev' = [dev EXCEPT ![d] = "failed"]
  /\ order' = Without(order, d)
  /\ UNCHANGED <<flink, blink, haltedBy>>
AddFails(d) ==
  /\ dev[d] = "linked"
  /\ RemoveEntryList(d)
  /\ dev' = IF halted' THEN dev ELSE [dev EXCEPT ![d] = "failed"]
  /\ order' = Without(order, d)

-----------------------------------------------------------------------------
(* What CacheFilterEvtDeviceContextCleanup does to the list: an entry that  *)
(* points to itself is left alone, any other is removed.                    *)
BugWithdraw(d, next) ==
  /\ dev[d] \in {"added", "failed"}
  /\ dev' = [dev EXCEPT ![d] = next]
  /\ order' = Without(order, d)
  /\ UNCHANGED <<flink, blink, haltedBy>>
Withdraw(d, next) ==
  /\ dev[d] \in {"added", "failed"}
  /\ IF flink[d] = d THEN UNCHANGED <<flink, blink, haltedBy>> ELSE RemoveEntryList(d)
  /\ dev' = IF halted' THEN dev ELSE [dev EXCEPT ![d] = next]
  /\ order' = Without(order, d)

(* CacheDiskLookupBySourceName does not look at the name: it finds the disk *)
(* that was added first.                                                    *)
BugFound(d) == blink[ListHead] = d
Found(d) == flink[ListHead] = d

-----------------------------------------------------------------------------
(* Properties *)

(* Whatever disks come, fail and go, at whatever place of the list, it holds *)
(* the disks that are present, in the order in which they came, forward and  *)
(* backward: no context is lost and none is left behind when it is freed.    *)
ListExact ==
  ~halted =>
    LET ring == <<ListHead>> \o order \o <<ListHead>>
    IN  \A i \in 1 .. (Len(ring) - 1) :
          flink[ring[i]] = ring[i + 1] /\ blink[ring[i + 1]] = ring[i]

(* The check of the list stops the system in one case only, the cleanup of a *)
(* device whose own add has failed: it was removed at cacheflt.c:431, does   *)
(* not point to itself, and is removed again at cacheflt.c:462.  Listing a   *)
(* disk never stops it, nor does removing one that was added, however many   *)
(* other adds have failed before.                                            *)
HaltsAfterFailedAdd == \A d \in haltedBy : dev[d] = "failed"

=============================================================================
