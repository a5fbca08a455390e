-------------------------- MODULE PopulateThrottle --------------------------
(***************************************************************************)
(* The rate limit of CachePopulateAsync.  Routines are the completion      *)
(* routines that may run on different processors at once; the limit is     *)
(* tested on two interlocked counters, read one after the other and        *)
(* without a lock, and the work items all go through the one IO_WORKITEM   *)
(* of the disk.  caching_active is TRUE throughout.  The counters are also *)
(* statistics, and CacheFilterIoctlResetStats sets them to zero, one after *)
(* the other, whatever is in flight.                                       *)
(***************************************************************************)
EXTENDS Integers, FiniteSets

CONSTANTS
  Routines,   \* completion routines that can run at the same time
  Limit,      \* 1024 in the code
  MaxQueued,  \* bound: populations queued in all
  MaxResets   \* bound: calls of CacheFilterIoctlResetStats

ASSUME RoutinesAssumption == IsFiniteSet(Routines)
ASSUME LimitAssumption    == Limit \in Nat /\ MaxQueued \in Nat
ASSUME ResetsAssumption   == MaxResets \in Nat

VARIABLES
  queued,     \* CACHE_DISK_CONTEXT.populations_queued
  completed,  \* CACHE_DISK_CONTEXT.populations_completed
  pending,    \* work items handed to IoQueueWorkItem and not started
  running,    \* work items that run CachePopulateWorkItemRoutine
  caller,     \* the local state of each caller; NotRead until it is read
  resetting,  \* resets that are between the two counters
  resets,     \* resets so far
  missed      \* history: what was in flight when the last reset began, the
              \* populations completed then and not yet reset, and those
              \* queued before all resets

rvars == <<resetting, resets, missed>>
tvars == <<queued, completed, pending, running, caller, rvars>>

NotRead == -1
Caller  == [pc : {"idle", "test", "queue"},
            q : Nat \cup {NotRead}, d : Nat \cup {NotRead}]
IdleCaller == [pc |-> "idle", q |-> NotRead, d |-> NotRead]

TInit ==
  /\ queued = 0
  /\ completed = 0
  /\ pending = 0
  /\ running = 0
  /\ caller = [c \in Routines |-> IdleCaller]
  /\ resetting = 0
  /\ resets = 0
  /\ missed = [inFlight |-> 0, completed |-> 0, queued |-> 0]

InFlight    == pending + running
Counted     == {c \in Routines : caller[c].pc = "queue"}

-----------------------------------------------------------------------------
(* CachePopulateAsync *)

Call(c) ==
  /\ caller[c].pc = "idle"
  /\ caller' = [caller EXCEPT ![c].pc = "test"]
  /\ UNCHANGED <<queued, completed, pending, running, rvars>>

(* The two operands of the subtraction: C leaves their order to the         *)
(* compiler.                                                                *)
ReadQueued(c) ==
  /\ caller[c].pc = "test" /\ caller[c].q = NotRead
  /\ caller' = [caller EXCEPT ![c].q = queued]
  /\ UNCHANGED <<queued, completed, pending, running, rvars>>

ReadCompleted(c) ==
  /\ caller[c].pc = "test" /\ caller[c].d = NotRead
  /\ caller' = [caller EXCEPT ![c].d = completed]
  /\ UNCHANGED <<queued, completed, pending, running, rvars>>

Tested(c) == caller[c].pc = "test" /\ caller[c].q # NotRead /\ caller[c].d # NotRead

BugOpen(c) == caller[c].q - caller[c].d <= Limit + 1
Open(c) == caller[c].q - caller[c].d <= Limit

(* STATUS_INSUFFICIENT_RESOURCES: over the limit. *)
OverLimit(c) ==
  /\ Tested(c) /\ ~Open(c)
  /\ caller' = [caller EXCEPT ![c] = IdleCaller]
  /\ UNCHANGED <<queued, completed, pending, running, rvars>>

(* STATUS_INSUFFICIENT_RESOURCES: no memory for the work item context. *)
OutOfMemory(c) ==
  /\ Tested(c) /\ Open(c)
  /\ caller' = [caller EXCEPT ![c] = IdleCaller]
  /\ UNCHANGED <<queued, completed, pending, running, rvars>>

BugCount(c) ==
  /\ Tested(c) /\ Open(c)
  /\ queued + missed.queued < MaxQueued
  /\ caller' = [caller EXCEPT ![c] = [IdleCaller EXCEPT !.pc = "queue"]]
  /\ UNCHANGED <<queued, completed, pending, running, rvars>>
Count(c) ==
  /\ Tested(c) /\ Open(c)
  /\ queued + missed.queued < MaxQueued
  /\ queued' = queued + 1
  /\ caller' = [caller EXCEPT ![c] = [IdleCaller EXCEPT !.pc = "queue"]]
  /\ UNCHANGED <<completed, pending, running, rvars>>

(* IoQueueWorkItem *)
Queue(c) ==
  /\ caller[c].pc = "queue"
  /\ pending' = pending + 1
  /\ caller' = [caller EXCEPT ![c] = IdleCaller]
  /\ UNCHANGED <<queued, completed, running, rvars>>

-----------------------------------------------------------------------------
(* CachePopulateWorkItemRoutine, as far as the counters see it *)

(* The kernel takes an item from its queue. *)
ItemStart ==
  /\ pending > 0
  /\ pending' = pending - 1
  /\ running' = running + 1
  /\ UNCHANGED <<queued, completed, caller, rvars>>

(* Published: StatsRecordPopulationComplete. *)
ItemPublished ==
  /\ running > 0
  /\ running' = running - 1
  /\ completed' = completed + 1
  /\ UNCHANGED <<queued, pending, caller, rvars>>

(* Every other way out: inactive, no memory, already cached, no victim,     *)
(* abort_populate.  None of them counts.                                    *)
BugItemGivenUp ==
  /\ running > 0
  /\ running' = running - 1
  /\ queued' = queued - 1
  /\ UNCHANGED <<completed, pending, caller, rvars>>
ItemGivenUp ==
  /\ running > 0
  /\ running' = running - 1
  /\ UNCHANGED <<queued, completed, pending, caller, rvars>>

-----------------------------------------------------------------------------
(* CacheFilterIoctlResetStats, as far as the two counters see it.  Several   *)
(* control requests may reset at once.                                       *)

ResetQueued ==
  /\ resets < MaxResets
  /\ resets' = resets + 1
  /\ resetting' = resetting + 1
  /\ queued' = 0
  /\ missed' = [inFlight  |-> InFlight + Cardinality(Counted),
                completed |-> completed,
                queued    |-> missed.queued + queued]
  /\ UNCHANGED <<completed, pending, running, caller>>

BugResetCompleted ==
  /\ resetting > 0
  /\ resetting' = resetting - 1
  /\ completed' = queued
  /\ missed' = [missed EXCEPT !.completed = 0]
  /\ UNCHANGED <<queued, pending, running, caller, resets>>
ResetCompleted ==
  /\ resetting > 0
  /\ resetting' = resetting - 1
  /\ completed' = 0
  /\ missed' = [missed EXCEPT !.completed = 0]
  /\ UNCHANGED <<queued, pending, running, caller, resets>>

-----------------------------------------------------------------------------
CallerStep(c) ==
  \/ Call(c)        \/ ReadQueued(c) \/ ReadCompleted(c) \/ OverLimit(c)
  \/ OutOfMemory(c) \/ Count(c)      \/ Queue(c)

TNext ==
  \/ \E c \in Routines : CallerStep(c)
  \/ ItemStart \/ ItemPublished \/ ItemGivenUp
  \/ ResetQueued \/ ResetCompleted

TSpec == TInit /\ [][TNext]_tvars

-----------------------------------------------------------------------------
(* Properties *)

Outstanding == queued - completed

(* The type invariant of the counters and the callers. *)
TypeOK ==
  /\ queued \in Nat /\ completed \in Nat
  /\ pending \in Nat /\ running \in Nat
  /\ caller \in [Routines -> Caller]
  /\ resetting \in Nat /\ resets \in Nat
  /\ missed \in [inFlight : Nat, completed : Nat, queued : Nat]

(* Until the statistics are reset, what the limit is tested on never         *)
(* underestimates what it limits: an item is counted before it is queued,    *)
(* and completed is counted at most once.                                    *)
OutstandingCoversInFlight ==
  resets = 0 => InFlight + Cardinality(Counted) <= Outstanding

(* A reset hides from the limit what is in flight when it begins, and,       *)
(* until it has reached populations_completed, what completed before: no     *)
(* more, whatever runs between its two steps and however many resets run.    *)
ResetHidesAtMost ==
  resets > 0 =>
    InFlight + Cardinality(Counted)
      <= Outstanding + missed.inFlight + missed.completed

(* However late a caller acts on the two counters it has read, and whatever  *)
(* the compiler reads first, the limit is exceeded by no more than the       *)
(* callers that run at once, until the statistics are reset.                 *)
OutstandingBounded ==
  resets = 0 => Outstanding <= Limit + Cardinality(Routines)

(* Those whose test cannot have been passed on a count below x: they have    *)
(* not read populations_queued yet, or they read x or more.                  *)
NotBelow(x) == {c \in Routines : caller[c].q = NotRead \/ caller[c].q >= x}

(* The inductive part of OutstandingBounded.  Once populations_queued is at  *)
(* a value x over the limit, only a caller that read a smaller value can     *)
(* still count; each does so once.                                           *)
StalePermits ==
  \A x \in 0 .. queued :
    resets = 0 /\ x > Limit + completed => queued - x + 1 <= Cardinality(NotBelow(x))

-----------------------------------------------------------------------------
(* What a comment of the code says, refuted by a violation run *)

(* cache.c:388 says that populations are skipped when too many are in        *)
(* flight: with none in flight, none would be skipped.                       *)
IdleMeansOpen == InFlight = 0 /\ Counted = {} => Outstanding <= Limit

=============================================================================
