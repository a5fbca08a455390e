----------------------- MODULE PopulateThrottleProofs -----------------------
(***************************************************************************)
(* The rate limit of CachePopulateAsync, for every number of callers and   *)
(* every limit.  Discipline says what a caller may hold in its locals;     *)
(* with it, StalePermits and OutstandingCoversInFlight are inductive until *)
(* the first reset, and ResetHidesAtMost from then on.                     *)
(***************************************************************************)
EXTENDS PopulateThrottle, FiniteSetTheorems, TLAPS

Discipline ==
  /\ resetting > 0 => resets > 0
  /\ missed.completed <= completed
  /\ \A c \in Routines :
    /\ caller[c].pc # "test" => caller[c].q = NotRead /\ caller[c].d = NotRead
    /\ resets = 0 => caller[c].d <= completed

(* The sets of callers that are counted are finite. *)
LEMMA CallerSets ==
  ASSUME NEW S, S \subseteq Routines
  PROVE  /\ IsFiniteSet(S)
         /\ Cardinality(S) \in Nat
         /\ Cardinality(S) <= Cardinality(Routines)
         /\ Cardinality(Routines) \in Nat
         /\ \A c : c \notin S => Cardinality(S \cup {c}) = Cardinality(S) + 1
         /\ \A c : c \in S => Cardinality(S \ {c}) = Cardinality(S) - 1
         /\ \A T : T \subseteq Routines /\ S \subseteq T => Cardinality(S) <= Cardinality(T)
<1>1. IsFiniteSet(Routines)
  BY RoutinesAssumption
<1>2. IsFiniteSet(S) /\ Cardinality(S) <= Cardinality(Routines)
  BY <1>1, FS_Subset
<1>3. Cardinality(S) \in Nat /\ Cardinality(Routines) \in Nat
  BY <1>1, <1>2, FS_CardinalityType
<1>4. \A c : c \notin S => Cardinality(S \cup {c}) = Cardinality(S) + 1
  BY <1>2, FS_AddElement
<1>5. \A c : c \in S => Cardinality(S \ {c}) = Cardinality(S) - 1
  BY <1>2, FS_RemoveElement
<1>6. \A T : T \subseteq Routines /\ S \subseteq T => Cardinality(S) <= Cardinality(T)
  BY <1>1, FS_Subset
<1> QED
  BY <1>2, <1>3, <1>4, <1>5, <1>6

(* The type invariant and the discipline of the callers are inductive. *)
LEMMA TypeInit == TInit => TypeOK /\ Discipline
BY ResetsAssumption DEF TInit, TypeOK, Discipline, IdleCaller, Caller, NotRead

LEMMA TypeStep == TypeOK /\ Discipline /\ [TNext]_tvars => TypeOK' /\ Discipline'
<1> SUFFICES ASSUME TypeOK, Discipline, [TNext]_tvars
             PROVE  TypeOK' /\ Discipline'
  OBVIOUS
<1> USE DEF TypeOK, Discipline, Caller, NotRead, rvars
<1>1. ASSUME NEW c \in Routines, Call(c) PROVE TypeOK' /\ Discipline'
  BY <1>1 DEF Call
<1>2. ASSUME NEW c \in Routines, ReadQueued(c) PROVE TypeOK' /\ Discipline'
  BY <1>2 DEF ReadQueued
<1>3. ASSUME NEW c \in Routines, ReadCompleted(c) PROVE TypeOK' /\ Discipline'
  BY <1>3 DEF ReadCompleted
<1>4. ASSUME NEW c \in Routines, OverLimit(c) PROVE TypeOK' /\ Discipline'
  BY <1>4 DEF OverLimit, IdleCaller
<1>5. ASSUME NEW c \in Routines, OutOfMemory(c) PROVE TypeOK' /\ Discipline'
  BY <1>5 DEF OutOfMemory, IdleCaller
<1>6. ASSUME NEW c \in Routines, Count(c) PROVE TypeOK' /\ Discipline'
  BY <1>6 DEF Count, IdleCaller
<1>7. ASSUME NEW c \in Routines, Queue(c) PROVE TypeOK' /\ Discipline'
  BY <1>7 DEF Queue, IdleCaller
<1>8. ASSUME ItemStart PROVE TypeOK' /\ Discipline'
  BY <1>8 DEF ItemStart
<1>9. ASSUME ItemPublished PROVE TypeOK' /\ Discipline'
  BY <1>9 DEF ItemPublished
<1>10. ASSUME ItemGivenUp PROVE TypeOK' /\ Discipline'
  BY <1>10 DEF ItemGivenUp
<1>11. ASSUME ResetQueued PROVE TypeOK' /\ Discipline'
  <2>1. Cardinality(Counted) \in Nat /\ InFlight \in Nat
    BY CallerSets DEF Counted, InFlight
  <2> QED
    BY <1>11, <2>1 DEF ResetQueued
<1>12. ASSUME ResetCompleted PROVE TypeOK' /\ Discipline'
  BY <1>12 DEF ResetCompleted
<1>13. CASE UNCHANGED tvars
  BY <1>13 DEF tvars, rvars
<1> QED
  BY <1>1, <1>2, <1>3, <1>4, <1>5, <1>6, <1>7, <1>8, <1>9, <1>10, <1>11, <1>12, <1>13
  DEF TNext, CallerStep

(* The counters and the locals of the callers have their types. *)
THEOREM ThrottleTypeCorrect == TSpec => []TypeOK
<1>1. TypeOK /\ Discipline /\ [TNext]_tvars => TypeOK' /\ Discipline'
  BY TypeStep
<1> QED
  BY <1>1, TypeInit, PTL DEF TSpec

-----------------------------------------------------------------------------
(* OutstandingCoversInFlight is inductive. *)
LEMMA CoversStep ==
  TypeOK /\ Discipline /\ OutstandingCoversInFlight /\ [TNext]_tvars
    => OutstandingCoversInFlight'
<1> SUFFICES ASSUME TypeOK, Discipline, OutstandingCoversInFlight, [TNext]_tvars
             PROVE  OutstandingCoversInFlight'
  OBVIOUS
<1> USE DEF OutstandingCoversInFlight, InFlight, Outstanding
<1>0. /\ queued \in Nat /\ completed \in Nat /\ pending \in Nat /\ running \in Nat
      /\ caller \in [Routines -> Caller] /\ resets \in Nat
  BY DEF TypeOK
<1>1. Counted \subseteq Routines
  BY DEF Counted
<1>2. /\ Cardinality(Counted) \in Nat
      /\ \A c : c \notin Counted => Cardinality(Counted \cup {c}) = Cardinality(Counted) + 1
      /\ \A c : c \in Counted => Cardinality(Counted \ {c}) = Cardinality(Counted) - 1
  BY <1>1, CallerSets
<1>3. ASSUME NEW c \in Routines,
             Call(c) \/ ReadQueued(c) \/ ReadCompleted(c) \/ OverLimit(c) \/ OutOfMemory(c)
      PROVE  OutstandingCoversInFlight'
  <2>1. Counted' = Counted
    BY <1>0, <1>3 DEF Counted, Call, ReadQueued, ReadCompleted, OverLimit, OutOfMemory,
      Tested, IdleCaller, Caller
  <2> QED
    BY <2>1, <1>3 DEF Call, ReadQueued, ReadCompleted, OverLimit, OutOfMemory, rvars
<1>4. ASSUME NEW c \in Routines, Count(c) PROVE OutstandingCoversInFlight'
  <2>1. Counted' = Counted \cup {c} /\ c \notin Counted
    BY <1>0, <1>4 DEF Counted, Count, Tested, IdleCaller, Caller
  <2> QED
    BY <2>1, <1>0, <1>2, <1>4 DEF Count, rvars
<1>5. ASSUME NEW c \in Routines, Queue(c) PROVE OutstandingCoversInFlight'
  <2>1. Counted' = Counted \ {c} /\ c \in Counted
    BY <1>0, <1>5 DEF Counted, Queue, IdleCaller, Caller
  <2> QED
    BY <2>1, <1>0, <1>2, <1>5 DEF Queue, rvars
<1>6. ASSUME ItemStart \/ ItemPublished \/ ItemGivenUp PROVE OutstandingCoversInFlight'
  <2>1. Counted' = Counted
    BY <1>6 DEF Counted, ItemStart, ItemPublished, ItemGivenUp
  <2> QED
    BY <2>1, <1>0, <1>2, <1>6 DEF ItemStart, ItemPublished, ItemGivenUp, rvars
<1>7. CASE UNCHANGED tvars
  BY <1>7 DEF tvars, rvars, Counted
<1>8. ASSUME ResetQueued \/ ResetCompleted PROVE OutstandingCoversInFlight'
  <2>1. resets' # 0
    BY <1>0, <1>8 DEF ResetQueued, ResetCompleted, Discipline
  <2> QED
    BY <2>1
<1> QED
  BY <1>3, <1>4, <1>5, <1>6, <1>7, <1>8 DEF TNext, CallerStep

(* What the limit is tested on never underestimates the populations in       *)
(* flight, for every number of callers.                                      *)
THEOREM OutstandingCovers == TSpec => []OutstandingCoversInFlight
<1>1. TInit => OutstandingCoversInFlight
  <2> SUFFICES ASSUME TInit PROVE OutstandingCoversInFlight
    OBVIOUS
  <2>1. Counted = {}
    BY DEF TInit, Counted, IdleCaller
  <2> QED
    BY <2>1, FS_EmptySet DEF TInit, OutstandingCoversInFlight, InFlight, Outstanding
<1>2. TypeOK /\ Discipline /\ OutstandingCoversInFlight /\ [TNext]_tvars
        => TypeOK' /\ Discipline' /\ OutstandingCoversInFlight'
  BY TypeStep, CoversStep
<1> QED
  BY <1>1, <1>2, TypeInit, PTL DEF TSpec

-----------------------------------------------------------------------------
(* Once something was reset, ResetHidesAtMost is inductive; a reset makes it *)
(* an equation.                                                              *)
LEMMA HidesStep ==
  TypeOK /\ Discipline /\ ResetHidesAtMost /\ [TNext]_tvars => ResetHidesAtMost'
<1> SUFFICES ASSUME TypeOK, Discipline, ResetHidesAtMost, [TNext]_tvars
             PROVE  ResetHidesAtMost'
  OBVIOUS
<1> USE DEF ResetHidesAtMost, InFlight, Outstanding
<1>0. /\ queued \in Nat /\ completed \in Nat /\ pending \in Nat /\ running \in Nat
      /\ caller \in [Routines -> Caller] /\ resets \in Nat
      /\ missed \in [inFlight : Nat, completed : Nat, queued : Nat]
  BY DEF TypeOK
<1>1. Counted \subseteq Routines
  BY DEF Counted
<1>2. /\ Cardinality(Counted) \in Nat
      /\ \A c : c \notin Counted => Cardinality(Counted \cup {c}) = Cardinality(Counted) + 1
      /\ \A c : c \in Counted => Cardinality(Counted \ {c}) = Cardinality(Counted) - 1
  BY <1>1, CallerSets
<1>3. ASSUME NEW c \in Routines,
             Call(c) \/ ReadQueued(c) \/ ReadCompleted(c) \/ OverLimit(c) \/ OutOfMemory(c)
      PROVE  ResetHidesAtMost'
  <2>1. Counted' = Counted
    BY <1>0, <1>3 DEF Counted, Call, ReadQueued, ReadCompleted, OverLimit, OutOfMemory,
      Tested, IdleCaller, Caller
  <2> QED
    BY <2>1, <1>3 DEF Call, ReadQueued, ReadCompleted, OverLimit, OutOfMemory, rvars
<1>4. ASSUME NEW c \in Routines, Count(c) PROVE ResetHidesAtMost'
  <2>1. Counted' = Counted \cup {c} /\ c \notin Counted
    BY <1>0, <1>4 DEF Counted, Count, Tested, IdleCaller, Caller
  <2> QED
    BY <2>1, <1>0, <1>2, <1>4 DEF Count, rvars
<1>5. ASSUME NEW c \in Routines, Queue(c) PROVE ResetHidesAtMost'
  <2>1. Counted' = Counted \ {c} /\ c \in Counted
    BY <1>0, <1>5 DEF Counted, Queue, IdleCaller, Caller
  <2> QED
    BY <2>1, <1>0, <1>2, <1>5 DEF Queue, rvars
<1>6. ASSUME ItemStart \/ ItemPublished \/ ItemGivenUp PROVE ResetHidesAtMost'
  <2>1. Counted' = Counted
    BY <1>6 DEF Counted, ItemStart, ItemPublished, ItemGivenUp
  <2> QED
    BY <2>1, <1>0, <1>2, <1>6 DEF ItemStart, ItemPublished, ItemGivenUp, rvars
<1>7. ASSUME ResetQueued PROVE ResetHidesAtMost'
  <2>1. Counted' = Counted
    BY <1>7 DEF Counted, ResetQueued
  <2> QED
    BY <2>1, <1>0, <1>2, <1>7 DEF ResetQueued
<1>8. ASSUME ResetCompleted PROVE ResetHidesAtMost'
  <2>1. Counted' = Counted /\ resets > 0 /\ missed.completed <= completed
    BY <1>8 DEF Counted, ResetCompleted, Discipline
  <2>2. InFlight + Cardinality(Counted) <= queued + missed.inFlight
    BY <2>1, <1>0, <1>2
  <2> QED
    BY <2>1, <2>2, <1>0, <1>2, <1>8 DEF ResetCompleted
<1>9. CASE UNCHANGED tvars
  BY <1>9 DEF tvars, rvars, Counted
<1> QED
  BY <1>3, <1>4, <1>5, <1>6, <1>7, <1>8, <1>9 DEF TNext, CallerStep

(* Resets hide from the limit no more than what was in flight at the last of *)
(* them, for every number of callers and of resets.                          *)
THEOREM ResetHides == TSpec => []ResetHidesAtMost
<1>1. TInit => ResetHidesAtMost
  BY DEF TInit, ResetHidesAtMost
<1>2. TypeOK /\ Discipline /\ ResetHidesAtMost /\ [TNext]_tvars
        => TypeOK' /\ Discipline' /\ ResetHidesAtMost'
  BY TypeStep, HidesStep
<1> QED
  BY <1>1, <1>2, TypeInit, PTL DEF TSpec

-----------------------------------------------------------------------------
(* A step that counts nothing, and in which a caller at most reads the       *)
(* counter or forgets what it read, keeps StalePermits.                      *)
LEMMA PermitsKept ==
  ASSUME TypeOK, StalePermits, queued' = queued, resets' = resets,
         completed' = completed \/ completed' = completed + 1,
         caller' \in [Routines -> Caller],
         \A c \in Routines : caller'[c].q \in {NotRead, caller[c].q, queued}
  PROVE  StalePermits'
<1>0. queued \in Nat /\ completed \in Nat /\ Limit \in Nat /\ caller \in [Routines -> Caller]
  BY LimitAssumption DEF TypeOK
<1> SUFFICES ASSUME NEW x \in 0 .. queued', resets' = 0, x > Limit + completed'
             PROVE  queued' - x + 1 <= Cardinality(NotBelow(x)')
  BY DEF StalePermits
<1>1. x \in 0 .. queued /\ x > Limit + completed
  BY <1>0
<1>2. queued - x + 1 <= Cardinality(NotBelow(x))
  BY <1>1 DEF StalePermits
<1>3. NotBelow(x) \subseteq Routines /\ NotBelow(x)' \subseteq Routines
  BY DEF NotBelow
<1>4. NotBelow(x) \subseteq NotBelow(x)'
  BY <1>0, <1>1 DEF NotBelow, Caller, NotRead
<1>5. /\ Cardinality(NotBelow(x)) \in Nat /\ Cardinality(NotBelow(x)') \in Nat
      /\ Cardinality(NotBelow(x)) <= Cardinality(NotBelow(x)')
  BY <1>3, <1>4, CallerSets
<1> QED
  BY <1>0, <1>1, <1>2, <1>5

(* A caller that counts had read a value that is not over the limit.         *)
LEMMA PermitsCount ==
  ASSUME TypeOK, Discipline, StalePermits, NEW c \in Routines, Count(c)
  PROVE  StalePermits'
<1>0. queued \in Nat /\ completed \in Nat /\ caller \in [Routines -> Caller] /\ Limit \in Nat
  BY LimitAssumption DEF TypeOK
<1>1. queued' = queued + 1 /\ completed' = completed /\ resets' = resets
  BY DEF Count, rvars
<1> SUFFICES ASSUME NEW x \in 0 .. queued', resets' = 0, x > Limit + completed'
             PROVE  queued' - x + 1 <= Cardinality(NotBelow(x)')
  BY DEF StalePermits
<1>2. caller[c].q \in Nat /\ caller[c].q < x
  BY <1>0, <1>1 DEF Count, Tested, Open, Discipline, Caller, NotRead
<1>3. c \notin NotBelow(x) /\ NotBelow(x)' = NotBelow(x) \cup {c}
  BY <1>0, <1>2 DEF NotBelow, Count, IdleCaller, Caller, NotRead
<1>4. NotBelow(x) \subseteq Routines
  BY DEF NotBelow
<1>5. Cardinality(NotBelow(x)) \in Nat
      /\ Cardinality(NotBelow(x)') = Cardinality(NotBelow(x)) + 1
  BY <1>3, <1>4, CallerSets
<1>6. CASE x = queued + 1
  BY <1>0, <1>1, <1>5, <1>6
<1>7. CASE x \in 0 .. queued
  <2>1. queued - x + 1 <= Cardinality(NotBelow(x))
    BY <1>1, <1>7 DEF StalePermits
  <2> QED
    BY <2>1, <1>0, <1>1, <1>5, <1>7
<1> QED
  BY <1>0, <1>1, <1>6, <1>7

LEMMA PermitsStep ==
  TypeOK /\ Discipline /\ StalePermits /\ [TNext]_tvars => StalePermits'
<1> SUFFICES ASSUME TypeOK, Discipline, StalePermits, [TNext]_tvars
             PROVE  StalePermits'
  OBVIOUS
<1>0. /\ queued \in Nat /\ completed \in Nat /\ resets \in Nat
      /\ caller \in [Routines -> Caller] /\ caller' \in [Routines -> Caller]
  BY TypeStep DEF TypeOK
<1>1. ASSUME NEW c \in Routines,
             Call(c) \/ ReadQueued(c) \/ ReadCompleted(c) \/ OverLimit(c) \/ OutOfMemory(c)
             \/ Queue(c)
      PROVE  StalePermits'
  <2>1. \A e \in Routines : caller'[e].q \in {NotRead, caller[e].q, queued}
    BY <1>0, <1>1 DEF Call, ReadQueued, ReadCompleted, OverLimit, OutOfMemory, Queue,
      IdleCaller, Caller
  <2>2. queued' = queued /\ completed' = completed /\ resets' = resets
    BY <1>1 DEF Call, ReadQueued, ReadCompleted, OverLimit, OutOfMemory, Queue, rvars
  <2> QED
    BY <1>0, <2>1, <2>2, PermitsKept
<1>2. ASSUME NEW c \in Routines, Count(c) PROVE StalePermits'
  BY <1>2, PermitsCount
<1>3. ASSUME ItemStart \/ ItemPublished \/ ItemGivenUp \/ UNCHANGED tvars
      PROVE  StalePermits'
  <2>1. caller' = caller /\ queued' = queued /\ resets' = resets
    BY <1>3 DEF ItemStart, ItemPublished, ItemGivenUp, tvars, rvars
  <2>2. completed' = completed \/ completed' = completed + 1
    BY <1>0, <1>3 DEF ItemStart, ItemPublished, ItemGivenUp, tvars
  <2> QED
    BY <1>0, <2>1, <2>2, PermitsKept
<1>4. ASSUME ResetQueued \/ ResetCompleted PROVE StalePermits'
  <2>1. resets' # 0
    BY <1>0, <1>4 DEF ResetQueued, ResetCompleted, Discipline
  <2> QED
    BY <2>1 DEF StalePermits
<1> QED
  BY <1>1, <1>2, <1>3, <1>4 DEF TNext, CallerStep

(* Of the callers that act on stale counts, each adds at most one population *)
(* over the limit, for every number of callers and every limit.              *)
THEOREM StalePermitsHolds == TSpec => []StalePermits
<1>1. TInit => StalePermits
  BY LimitAssumption DEF TInit, StalePermits
<1>2. TypeOK /\ Discipline /\ StalePermits /\ [TNext]_tvars
        => TypeOK' /\ Discipline' /\ StalePermits'
  BY TypeStep, PermitsStep
<1> QED
  BY <1>1, <1>2, TypeInit, PTL DEF TSpec

(* populations_queued - populations_completed exceeds the limit by no more   *)
(* than the number of callers that can run at once.                          *)
THEOREM LimitHolds == TSpec => []OutstandingBounded
<1>1. TypeOK /\ StalePermits => OutstandingBounded
  <2> SUFFICES ASSUME TypeOK, StalePermits PROVE OutstandingBounded
    OBVIOUS
  <2> SUFFICES ASSUME resets = 0 PROVE OutstandingBounded
    BY DEF OutstandingBounded
  <2>0. queued \in Nat /\ completed \in Nat /\ Limit \in Nat
    BY LimitAssumption DEF TypeOK
  <2> DEFINE x == Limit + completed + 1
  <2>1. NotBelow(x) \subseteq Routines
    BY DEF NotBelow
  <2>2. /\ Cardinality(NotBelow(x)) \in Nat
        /\ Cardinality(Routines) \in Nat
        /\ Cardinality(NotBelow(x)) <= Cardinality(Routines)
    BY <2>1, CallerSets
  <2>3. CASE queued >= x
    <3>1. queued - x + 1 <= Cardinality(NotBelow(x))
      BY <2>0, <2>3 DEF StalePermits
    <3> QED
      BY <3>1, <2>0, <2>2 DEF OutstandingBounded, Outstanding
  <2>4. CASE queued < x
    BY <2>0, <2>2, <2>4 DEF OutstandingBounded, Outstanding
  <2> QED
    BY <2>0, <2>3, <2>4
<1> QED
  BY <1>1, ThrottleTypeCorrect, StalePermitsHolds, PTL
=============================================================================
