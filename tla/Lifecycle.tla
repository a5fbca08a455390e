----------------------------- MODULE Lifecycle -----------------------------
(***************************************************************************)
(* The resources of one CACHE_DISK_CONTEXT: the file object of the cache   *)
(* partition, the block map and the two work items, as attach, detach,     *)
(* flush and device cleanup allocate and release them.  Control requests   *)
(* reach the driver from any thread at any time (a WDM control device      *)
(* serializes nothing), and none of these handlers takes a lock but for    *)
(* the write of the index.                                                 *)
(*                                                                         *)
(* The context is that of Disk; the others share the list with it, and     *)
(* what a request does to the context of another disk is not modelled.     *)
(*                                                                         *)
(* Users are the read requests and the populations, as far as they         *)
(* dereference block_map.  What a use of released memory does is not       *)
(* modelled.  External: KMDF cleans a device up after the requests of its  *)
(* queue are completed; it knows nothing of the work items.                *)
(***************************************************************************)
EXTENDS DeviceList, FiniteSets

CONSTANTS
  Disk,       \* the disk whose context this is
  Callers,    \* threads that send control requests
  Remover,    \* the PnP manager
  Requests,   \* read requests in progress
  Works,      \* populations in progress
  MaxLive     \* bound: objects of one field that are allocated at once

ASSUME RemoverAssumption == Remover \notin Callers
ASSUME DiskAssumption    == Disk \in Disks
ASSUME BoundAssumption   == MaxLive \in Nat

Actors == Callers \cup {Remover}
Users  == Requests \cup Works

(* In the order in which CacheAttachToDisk allocates them. *)
Fields == <<"file", "map", "popItem", "syncItem">>
Field  == Range(Fields)
None   == <<"none", 0>>

VARIABLES
  active,      \* caching_active
  ctx,         \* cache_file_object, block_map and the work items of the context
  live,        \* the objects that are allocated: fields with numbers
  partOf,      \* the disk for which the open partition was prepared
  call,        \* the local state of each actor
  use,         \* the local state of each user
  overlapped,  \* history: two calls were in progress at the same time
  detaches     \* history: detaches of this context that ended

kvars == <<active, ctx, live, partOf, call, use, overlapped, detaches>>
vars  == <<dvars, kvars>>

IdleCall == [op |-> "none", named |-> Disk, pc |-> "idle", k |-> 0, todo |-> <<>>]
Busy(t)  == call[t].pc # "idle"

Init ==
  /\ DInit
  /\ active = FALSE
  /\ ctx = [f \in Field |-> None]
  /\ live = {}
  /\ partOf = Disk
  /\ call = [t \in Actors |-> IdleCall]
  /\ use = [u \in Users |-> "idle"]
  /\ overlapped = FALSE
  /\ detaches = 0

Enter(t, op, named, pc, todo) ==
  /\ ~Busy(t)
  /\ call' = [call EXCEPT ![t] =
       [op |-> op, named |-> named, pc |-> pc, k |-> 1, todo |-> todo]]
  /\ overlapped' = (overlapped \/ \E a \in Actors \ {t} : Busy(a))

Leave(t) == call' = [call EXCEPT ![t] = IdleCall]

-----------------------------------------------------------------------------
(* CacheFilterControlDeviceDispatch: whichever disk the request names, the  *)
(* first context of the list is found, and the lock of the list is dropped  *)
(* before the handler runs.                                                 *)
Find(t) ==
  /\ Found(Disk)
  /\ \/ \E d \in Present : Enter(t, "attach", d, "dispatch", <<>>)
     \/ \E op \in {"detach", "flush"} : Enter(t, op, Disk, "dispatch", <<>>)
  /\ UNCHANGED <<active, ctx, live, partOf, use, detaches>>

(* Attached already, or not attached. *)
Refuse(t) ==
  /\ call[t].pc = "dispatch"
  /\ active <=> call[t].op = "attach"
  /\ Leave(t)
  /\ UNCHANGED <<active, ctx, live, partOf, use, overlapped, detaches>>

(* CacheAttachToDisk.  The partition is the one prepared for the disk that  *)
(* the request names; its serial is not compared with the disk's.           *)
AttachBegin(t) ==
  /\ call[t].pc = "dispatch" /\ call[t].op = "attach" /\ ~active
  /\ call' = [call EXCEPT ![t].pc = "alloc"]
  /\ UNCHANGED <<active, ctx, live, partOf, use, overlapped, detaches>>

(* Objects nobody has: only the context points to objects, so that a number  *)
(* may be given again once the object is freed and the pointer overwritten.  *)
Unused(f) == ({f} \X (1 .. MaxLive)) \ (live \cup {ctx[f]})

AllocOk(t) ==
  /\ call[t].pc = "alloc" /\ call[t].k <= Len(Fields)
  /\ LET f == Fields[call[t].k] IN
       \E new \in Unused(f) :
         /\ \A o \in Unused(f) : new[2] <= o[2]
         /\ ctx' = [ctx EXCEPT ![f] = new]
         /\ live' = live \cup {new}
  /\ partOf' = IF call[t].k = 1 THEN call[t].named ELSE partOf
  /\ call' = [call EXCEPT ![t].k = @ + 1]
  /\ UNCHANGED <<active, use, overlapped, detaches>>

(* A parameter is refused or the partition cannot be opened; the superblock *)
(* or the index cannot be read; no memory.  The index load stores a NULL    *)
(* block map if it came as far as allocating it.                            *)
AfterFail(f) ==
  (IF f \in {"file", "map"} THEN {ctx} ELSE {}) \cup
  (IF f # "file" THEN {[ctx EXCEPT ![f] = None]} ELSE {})

(* What was allocated before is undone in reverse. *)
BugUndone(k) == Reverse(SubSeq(Fields, 1, k - 2))
Undone(k) == Reverse(SubSeq(Fields, 1, k - 1))

AllocFail(t) ==
  /\ call[t].pc = "alloc" /\ call[t].k <= Len(Fields)
  /\ ctx' \in AfterFail(Fields[call[t].k])
  /\ call' = [call EXCEPT ![t].op = "undo", ![t].pc = "release",
                          ![t].todo = Undone(call[t].k)]
  /\ UNCHANGED <<active, live, partOf, use, overlapped, detaches>>

Activate(t) ==
  /\ call[t].pc = "alloc" /\ call[t].k > Len(Fields)
  /\ active' = TRUE
  /\ Leave(t)
  /\ UNCHANGED <<ctx, live, partOf, use, overlapped, detaches>>

-----------------------------------------------------------------------------
(* CacheFilterIoctlDetach and CacheFilterIoctlFlush *)
ToFlush(t) ==
  /\ call[t].pc = "dispatch" /\ call[t].op \in {"detach", "flush"} /\ active
  /\ call' = [call EXCEPT ![t].pc = "flush"]
  /\ UNCHANGED <<active, ctx, live, partOf, use, overlapped, detaches>>

(* CacheFilterEvtDeviceContextCleanup takes the context from the list; it   *)
(* flushes if caching is active, and releases everything.                   *)
Cleanup ==
  /\ \A u \in Requests : use[u] = "idle"
  /\ Withdraw(Disk, "gone")
  /\ Enter(Remover, "cleanup", Disk,
           IF active /\ ctx["map"] # None THEN "flush" ELSE "release",
           <<"map", "file", "popItem", "syncItem">>)
  /\ UNCHANGED <<active, ctx, live, partOf, use, detaches>>

(* IndexFlushToSsd *)
Flushed(t) ==
  /\ call[t].pc = "flush"
  /\ IF call[t].op = "flush"
       THEN Leave(t)
       ELSE call' = [call EXCEPT ![t].pc = "release",
              ![t].todo = IF call[t].op = "detach" THEN <<"map", "file">> ELSE @]
  /\ UNCHANGED <<active, ctx, live, partOf, use, overlapped, detaches>>

(* Detach and cleanup free a pointer that is not NULL; an attach that failed *)
(* frees without the test.  The pointer is set to NULL after that.           *)
Free(t) ==
  /\ call[t].pc = "release" /\ call[t].todo # <<>>
  /\ ctx[Head(call[t].todo)] # None \/ call[t].op = "undo"
  /\ live' = live \ {ctx[Head(call[t].todo)]}
  /\ call' = [call EXCEPT ![t].pc = "clear"]
  /\ UNCHANGED <<active, ctx, partOf, use, overlapped, detaches>>

BugClear(t) ==
  /\ call[t].pc = "clear"
  /\ call' = [call EXCEPT ![t].pc = "release", ![t].todo = Tail(@)]
  /\ UNCHANGED <<active, ctx, live, partOf, use, overlapped, detaches>>
Clear(t) ==
  /\ call[t].pc = "clear"
  /\ ctx' = [ctx EXCEPT ![Head(call[t].todo)] = None]
  /\ call' = [call EXCEPT ![t].pc = "release", ![t].todo = Tail(@)]
  /\ UNCHANGED <<active, live, partOf, use, overlapped, detaches>>

NothingToFree(t) ==
  /\ call[t].pc = "release" /\ call[t].todo # <<>>
  /\ ctx[Head(call[t].todo)] = None /\ call[t].op # "undo"
  /\ call' = [call EXCEPT ![t].todo = Tail(@)]
  /\ UNCHANGED <<active, ctx, live, partOf, use, overlapped, detaches>>

Released(t) ==
  /\ call[t].pc = "release" /\ call[t].todo = <<>>
  /\ active' = (active /\ call[t].op # "detach")
  /\ detaches' = IF call[t].op = "detach" THEN detaches + 1 ELSE detaches
  /\ Leave(t)
  /\ UNCHANGED <<ctx, live, partOf, use, overlapped>>

-----------------------------------------------------------------------------
(* A request or a population: it tests caching_active, tests the pointer    *)
(* (CacheLookup, LruClockFindVictim), and dereferences it.                  *)
UserEnter(u) ==
  /\ dev[Disk] = "added" /\ use[u] = "idle" /\ active
  /\ use' = [use EXCEPT ![u] = "test"]
  /\ UNCHANGED <<active, ctx, live, partOf, call, overlapped, detaches>>

UserTest(u) ==
  /\ use[u] = "test"
  /\ use' = [use EXCEPT ![u] = IF ctx["map"] # None THEN "deref" ELSE "idle"]
  /\ UNCHANGED <<active, ctx, live, partOf, call, overlapped, detaches>>

UserDeref(u) ==
  /\ use[u] = "deref"
  /\ \E next \in {"idle", "test"} : use' = [use EXCEPT ![u] = next]
  /\ UNCHANGED <<active, ctx, live, partOf, call, overlapped, detaches>>

CallStep(t) ==
  \/ Refuse(t)  \/ AttachBegin(t) \/ AllocOk(t) \/ AllocFail(t) \/ Activate(t)
  \/ ToFlush(t) \/ Flushed(t)
  \/ Free(t)    \/ Clear(t)       \/ NothingToFree(t) \/ Released(t)

UserStep(u) == UserEnter(u) \/ UserTest(u) \/ UserDeref(u)

AddStep(d) == AddLink(d) \/ AddDone(d) \/ AddFails(d)

Next ==
  /\ ~halted
  /\ \/ (\E t \in Callers : Find(t)) /\ UNCHANGED dvars
     \/ (\E t \in Actors : CallStep(t)) /\ UNCHANGED dvars
     \/ (\E u \in Users : UserStep(u)) /\ UNCHANGED dvars
     \/ Cleanup
     \/ (\E d \in Disks : AddStep(d)) /\ UNCHANGED kvars
     \/ (\E d \in Disks \ {Disk} : Withdraw(d, "absent")) /\ UNCHANGED kvars

Spec == Init /\ [][Next]_vars

-----------------------------------------------------------------------------
(* Properties *)

AllIdle == \A t \in Actors : ~Busy(t)
Of(f)   == {o \in live : o[1] = f}

(* Between calls, none of which overlapped, the context has exactly one open *)
(* partition and one block map if caching is active, and none if it is not:  *)
(* every failure path of an attach releases what the attach had taken, and   *)
(* nothing the context points to is gone.                                    *)
ResourcesMatchActive ==
  ~overlapped /\ AllIdle =>
    /\ \A f \in {"file", "map"} :
         Of(f) = IF active /\ Disk \in Present THEN {ctx[f]} ELSE {}
    /\ \A f \in Field : ctx[f] # None => ctx[f] \in live
    /\ active /\ Disk \in Present => \A f \in Field : ctx[f] # None

(* In calls that do not overlap, nothing is freed twice, on any failure path *)
(* and whatever the sequence of attaches, detaches and cleanup; and an       *)
(* attach that failed, which frees without a test, has what it frees.        *)
FreedOnce ==
  ~overlapped => \A t \in Actors :
    call[t].pc = "release" /\ call[t].todo # <<>> =>
      ctx[Head(call[t].todo)] \in live \cup (IF call[t].op = "undo" THEN {} ELSE {None})

(* A context has the work items of the attach that is in force, and at most  *)
(* one more of each kind for every detach: whatever detach forgets           *)
(* (ioctl.c:166-178), no attach that fails, at whatever step, forgets any.   *)
AtMostOneLeakPerDetach ==
  ~overlapped /\ AllIdle /\ Disk \in Present =>
    \A f \in {"popItem", "syncItem"} :
      Cardinality(Of(f)) <= detaches + (IF active THEN 1 ELSE 0)

Before(a, b) ==
  \E i, j \in 1 .. Len(order) : i < j /\ order[i] = a /\ order[j] = b

(* Nothing compares the serial in the superblock with the disk, nor the name *)
(* in the request with the context that was found.  A disk may so cache on a *)
(* partition with the blocks of another disk, but only on that of one that   *)
(* was added after it: of two disks, the one added last never serves data of *)
(* the other, whatever came and went in between.                             *)
OnlyYoungersPartition ==
  active /\ {Disk, partOf} \subseteq Range(order) /\ partOf # Disk =>
    Before(Disk, partOf)

-----------------------------------------------------------------------------
(* What comments of the code say, refuted by violation runs *)

(* attach.c:7: detach stops caching before it frees the resources, so no     *)
(* request and no population uses a block map that has been freed.           *)
MapLiveInUse == \A u \in Users : use[u] = "deref" => ctx["map"] \in live

(* attach.c:7, "Detach = deactivate caching, flush index, free resources",   *)
(* and attach.c:236, "Free work items": a context that does not cache has no *)
(* work item, as it has no block map and no open partition.                  *)
DetachFreesItems ==
  ~overlapped /\ AllIdle /\ ~active => Of("popItem") \cup Of("syncItem") = {}

=============================================================================
