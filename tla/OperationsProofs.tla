---------------------------- MODULE OperationsProofs ----------------------------
(***************************************************************************)
(* Operations on apps and their streams, for any number of operations,     *)
(* clients, faults and restarts.                                           *)
(***************************************************************************)
EXTENDS OperationStream, FiniteSetTheorems, TLAPS

-------------------------------------------------------------------------------
(* The operations of the store and the abstract life they implement. *)

(* Type correctness. *)

LEMMA InitTypeOK == Init => TypeOK
<1> SUFFICES ASSUME Init PROVE TypeOK
  OBVIOUS
<1>1. /\ 0 \in 0..MaxSteps /\ 0 \in 0..MaxTicks
      /\ faults \in 0..MaxFaults /\ restarts \in 0..MaxRestarts
  BY ConstantsAssumption DEF ConstantsAssumption, Init
<1> QED
  BY <1>1 DEF Init, TypeOK

LEMMA NextTypeOK == TypeOK /\ [Next]_vars => TypeOK'
<1> SUFFICES ASSUME TypeOK, [Next]_vars PROVE TypeOK'
  OBVIOUS
<1> USE ConstantsAssumption DEF ConstantsAssumption, TypeOK, Live, Stuck, Over, Active, Terminal,
        Goto, Fault, SetRow, Emit, Release, progress, upkeep, budget
<1>1. ASSUME NEW o \in Op, Admit(o) PROVE TypeOK'
  BY <1>1 DEF Admit
<1>2. ASSUME NEW o \in Op, Handler(o) PROVE TypeOK'
  <2>1. CASE InsertRow(o)
    BY <2>1 DEF InsertRow
  <2>2. CASE StartWrite(o)
    BY <2>2 DEF StartWrite
  <2>3. CASE StartEmit(o)
    BY <2>3 DEF StartEmit
  <2>4. CASE StepWrite(o)
    BY <2>4 DEF StepWrite
  <2>5. CASE StepEmit(o)
    BY <2>5 DEF StepEmit
  <2>6. CASE PullEnds(o)
    BY <2>6 DEF PullEnds
  <2>7. CASE BodyEnds(o)
    BY <2>7 DEF BodyEnds
  <2>8. CASE FinalWrite(o)
    BY <2>8 DEF FinalWrite
  <2>9. CASE FinalEmit(o)
    BY <2>9 DEF FinalEmit
  <2> QED
    BY <1>2, <2>1, <2>2, <2>3, <2>4, <2>5, <2>6, <2>7, <2>8, <2>9 DEF Handler
<1>3. ASSUME NEW o \in Op, DatabaseFails(o) PROVE TypeOK'
  BY <1>3 DEF DatabaseFails, InsertFails, StartFails, SuccessWriteFails, ErrorWriteFails
<1>4. ASSUME NEW o \in Op, Progress(o) PROVE TypeOK'
  <2>1. CASE Tick(o)
    BY <2>1 DEF Tick
  <2>2. CASE ProgressWrite(o)
    BY <2>2 DEF ProgressWrite
  <2>3. CASE ProgressFails(o)
    BY <2>3 DEF ProgressFails
  <2>4. CASE ProgressEmit(o)
    BY <2>4 DEF ProgressEmit
  <2> QED
    BY <1>4, <2>1, <2>2, <2>3, <2>4 DEF Progress
<1>5. ASSUME NEW o \in Op, Purge(o) PROVE TypeOK'
  BY <1>5 DEF Purge
<1>6. CASE Prune
  BY <1>6 DEF Prune
<1>7. CASE MarkStale
  BY <1>7 DEF MarkStale
<1>8. CASE MarkStaleFails
  BY <1>8 DEF MarkStaleFails
<1>9. CASE Restart
  <2>1. phase' \in [Op -> {"idle"} \cup Live \cup Stuck \cup Over]
    BY <1>9 DEF Restart
  <2>2. /\ guard' \subseteq App /\ row' = row /\ steps' = steps /\ ticks' = ticks
        /\ faults' = faults /\ restarts' \in 0..MaxRestarts /\ sweep' = "pending"
        /\ pruning' = FALSE
    BY <1>9 DEF Restart
  <2>3. /\ latest' \in [Op -> {"none", "running"} \cup Terminal]
        /\ writing' \in [Op -> Nat] /\ emitting' \in [Op -> Nat]
    BY <1>9 DEF Restart
  <2> QED
    BY <2>1, <2>2, <2>3
<1>10. CASE UNCHANGED vars
  BY <1>10 DEF vars
<1> QED
  BY <1>1, <1>2, <1>3, <1>4, <1>5, <1>6, <1>7, <1>8, <1>9, <1>10 DEF Next

\* Every variable keeps its type, whatever the number of apps, operations,
\* ticks, failed queries and restarts.
THEOREM TypeCorrect == Spec => []TypeOK
BY InitTypeOK, NextTypeOK, PTL DEF Spec

-------------------------------------------------------------------------------
(* The guard.  Seen from the guard a step takes an entry, frees one, loses  *)
(* all of them, or leaves them and the operations that hold them alone.     *)

Holding == Live \cup Stuck

Takes(o) ==
    /\ phase[o] = "idle" /\ AppOf[o] \notin guard /\ Cardinality(guard) < MaxConcurrent
    /\ phase' = [phase EXCEPT ![o] = "insert"]
    /\ guard' = guard \cup {AppOf[o]}

Frees(o) ==
    /\ phase[o] \in Holding
    /\ \E over \in Over : phase' = [phase EXCEPT ![o] = over]
    /\ guard' = guard \ {AppOf[o]}

SameHolders ==
    /\ guard' = guard
    /\ \A o \in Op : /\ phase'[o] \in Holding <=> phase[o] \in Holding
                     /\ phase'[o] = "idle" <=> phase[o] = "idle"

DropsAll ==
    /\ guard' = {}
    /\ \A o \in Op : /\ phase'[o] \notin Holding
                     /\ phase'[o] = "idle" <=> phase[o] = "idle"

LEMMA StepKinds ==
    TypeOK /\ [Next]_vars =>
        (\E o \in Op : Takes(o) \/ Frees(o)) \/ SameHolders \/ DropsAll
<1> SUFFICES ASSUME TypeOK, [Next]_vars
             PROVE (\E o \in Op : Takes(o) \/ Frees(o)) \/ SameHolders \/ DropsAll
  OBVIOUS
<1> USE DEF Holding, Live, Stuck, Over, Goto
<1>1. ASSUME NEW o \in Op, Admit(o) PROVE Takes(o)
  BY <1>1 DEF Admit, Takes
<1>2. ASSUME NEW o \in Op, Handler(o) PROVE Frees(o) \/ SameHolders
  <2>1. CASE FinalEmit(o)
    BY <2>1 DEF TypeOK, FinalEmit, Frees, Release
  <2>2. CASE ~FinalEmit(o)
    <3>1. guard' = guard /\ \E to \in Live : phase' = [phase EXCEPT ![o] = to]
      BY <1>2, <2>2 DEF Handler, InsertRow, StartWrite, StartEmit, StepWrite, StepEmit,
                        PullEnds, BodyEnds, FinalWrite
    <3>2. phase[o] \in Live
      BY <1>2, <2>2 DEF Handler, InsertRow, StartWrite, StartEmit, StepWrite, StepEmit,
                        PullEnds, BodyEnds, FinalWrite
    <3> QED
      BY <3>1, <3>2 DEF TypeOK, SameHolders
  <2> QED
    BY <2>1, <2>2
<1>3. ASSUME NEW o \in Op, DatabaseFails(o) PROVE Frees(o) \/ SameHolders
  <2>1. CASE InsertFails(o) \/ ErrorWriteFails(o)
    BY <2>1 DEF TypeOK, InsertFails, ErrorWriteFails, Frees, Release
  <2>2. CASE StartFails(o) \/ SuccessWriteFails(o)
    BY <2>2 DEF TypeOK, StartFails, SuccessWriteFails, SameHolders
  <2> QED
    BY <1>3, <2>1, <2>2 DEF DatabaseFails
<1>4. ASSUME NEW o \in Op, Progress(o) PROVE SameHolders
  BY <1>4 DEF Progress, Tick, ProgressWrite, ProgressFails, ProgressEmit, SameHolders
<1>5. ASSUME NEW o \in Op, Purge(o) PROVE SameHolders
  BY <1>5 DEF TypeOK, Purge, SameHolders
<1>6. CASE Prune \/ MarkStale \/ MarkStaleFails \/ UNCHANGED vars
  BY <1>6 DEF Prune, MarkStale, MarkStaleFails, vars, SameHolders
<1>7. CASE Restart
  BY <1>7 DEF Restart, TypeOK, DropsAll
<1> QED
  BY <1>1, <1>2, <1>3, <1>4, <1>5, <1>6, <1>7 DEF Next

\* The inductive invariant: the entries of the guard and the operations that
\* hold them are in bijection, and there are at most MaxConcurrent of them.
GuardInv ==
    /\ \A o \in Op : phase[o] \in Holding => AppOf[o] \in guard
    /\ \A a \in guard : \E o \in Op : phase[o] \in Holding /\ AppOf[o] = a
    /\ \A o, p \in Op : phase[o] \in Holding /\ phase[p] \in Holding /\ AppOf[o] = AppOf[p]
                            => o = p
    /\ IsFiniteSet(guard)
    /\ Cardinality(guard) <= MaxConcurrent

LEMMA InitGuardInv == Init => GuardInv
BY FS_EmptySet, ConstantsAssumption DEF ConstantsAssumption, Init, GuardInv, Holding, Live, Stuck

LEMMA NextGuardInv == TypeOK /\ GuardInv /\ [Next]_vars => GuardInv'
<1> SUFFICES ASSUME TypeOK, GuardInv, [Next]_vars PROVE GuardInv'
  OBVIOUS
<1>0. Cardinality(guard) \in Nat /\ MaxConcurrent \in Nat
  BY FS_CardinalityType, ConstantsAssumption DEF GuardInv, ConstantsAssumption
<1>1. ASSUME NEW o \in Op, Takes(o) PROVE GuardInv'
  <2>1. IsFiniteSet(guard') /\ Cardinality(guard') <= MaxConcurrent
    <3>1. IsFiniteSet(guard)
      BY DEF GuardInv
    <3>2. /\ IsFiniteSet(guard \cup {AppOf[o]})
          /\ Cardinality(guard \cup {AppOf[o]}) =
                IF AppOf[o] \in guard THEN Cardinality(guard) ELSE Cardinality(guard) + 1
      BY <3>1, FS_AddElement
    <3> QED
      BY <1>0, <1>1, <3>2 DEF Takes
  <2>2. \A p \in Op : phase'[p] \in Holding <=> p = o \/ phase[p] \in Holding
    BY <1>1 DEF Takes, TypeOK, Holding, Live
  <2> QED
    BY <1>1, <2>1, <2>2 DEF GuardInv, Takes
<1>2. ASSUME NEW o \in Op, Frees(o) PROVE GuardInv'
  <2>1. IsFiniteSet(guard') /\ Cardinality(guard') <= MaxConcurrent
    <3>1. IsFiniteSet(guard) /\ Cardinality(guard) <= MaxConcurrent
      BY DEF GuardInv
    <3>2. /\ IsFiniteSet(guard \ {AppOf[o]})
          /\ Cardinality(guard \ {AppOf[o]}) =
                IF AppOf[o] \in guard THEN Cardinality(guard) - 1 ELSE Cardinality(guard)
      BY <3>1, FS_RemoveElement
    <3> QED
      BY <1>0, <1>2, <3>1, <3>2 DEF Frees
  <2>2. \A p \in Op : phase'[p] \in Holding <=> p # o /\ phase[p] \in Holding
    BY <1>2 DEF Frees, TypeOK, Holding, Live, Stuck, Over
  <2> QED
    BY <1>2, <2>1, <2>2 DEF GuardInv, Frees
<1>3. CASE SameHolders
  BY <1>3 DEF SameHolders, GuardInv
<1>4. CASE DropsAll
  BY <1>0, <1>4, FS_EmptySet DEF DropsAll, GuardInv
<1> QED
  BY <1>1, <1>2, <1>3, <1>4, StepKinds

\* There are no more operations in progress than entries in the guard.
LEMMA HoldersBounded ==
    ASSUME TypeOK, GuardInv, NEW H \in SUBSET {o \in Op : phase[o] \in Holding}
    PROVE  Cardinality(H) \in Nat /\ Cardinality(H) <= Cardinality(guard)
<1>1. IsFiniteSet(H)
  BY ConstantsAssumption, FS_Subset DEF ConstantsAssumption
<1>2. Cardinality(H) \in Nat /\ Cardinality(guard) \in Nat
  BY <1>1, FS_CardinalityType DEF GuardInv
<1>3. ASSUME Cardinality(guard) < Cardinality(H) PROVE FALSE
  <2> DEFINE f == [x \in H |-> AppOf[x]]
  <2>1. f \in [H -> guard]
    BY DEF GuardInv
  <2>2. IsFiniteSet(guard)
    BY DEF GuardInv
  <2> HIDE DEF f
  <2>3. \E o, p \in H : o # p /\ f[o] = f[p]
    BY <1>1, <1>3, <2>1, <2>2, FS_PigeonHole
  <2> QED
    BY <2>3 DEF GuardInv, f
<1> QED
  BY <1>2, <1>3

LEMMA GuardInvImplies ==
    TypeOK /\ GuardInv => MutualExclusion /\ WithinLimit /\ GuardAccounted
<1> SUFFICES ASSUME TypeOK, GuardInv PROVE MutualExclusion /\ WithinLimit /\ GuardAccounted
  OBVIOUS
<1>1. MutualExclusion
  BY DEF GuardInv, Holding, MutualExclusion
<1>2. WithinLimit
  <2>1. {o \in Op : phase[o] \in Live} \in SUBSET {o \in Op : phase[o] \in Holding}
    BY DEF Holding
  <2>2. Cardinality(guard) \in Nat /\ MaxConcurrent \in Nat
    BY FS_CardinalityType, ConstantsAssumption DEF GuardInv, ConstantsAssumption
  <2> QED
    BY <2>1, <2>2, HoldersBounded DEF GuardInv, WithinLimit
<1>3. GuardAccounted
  BY DEF GuardInv, GuardAccounted, Holding
<1> QED
  BY <1>1, <1>2, <1>3

LEMMA GuardInvariant == Spec => [](TypeOK /\ GuardInv)
BY InitTypeOK, NextTypeOK, InitGuardInv, NextGuardInv, PTL DEF Spec

\* Two operations of one app are never in progress together.
THEOREM NeverTwoOfOneApp == Spec => []MutualExclusion
BY GuardInvariant, GuardInvImplies, PTL

\* The limit of STORE_MAX_CONCURRENT_OPERATIONS holds at every await.
THEOREM NeverOverLimit == Spec => []WithinLimit
BY GuardInvariant, GuardInvImplies, PTL

\* No path but the failure of the first patch leaves an entry in the guard.
THEOREM GuardExact == Spec => []GuardAccounted
BY GuardInvariant, GuardInvImplies, PTL

-------------------------------------------------------------------------------
(* StoreOperations implements OperationLifecycle. *)

LEMMA StepRefines ==
    TypeOK /\ GuardInv /\ [Next]_vars => [Lifecycle!Next]_lifecycleStatus
<1> SUFFICES ASSUME TypeOK, GuardInv, [Next]_vars
             PROVE  Lifecycle!Next \/ lifecycleStatus' = lifecycleStatus
  OBVIOUS
<1> USE DEF Holding
<1>1. ASSUME NEW o \in Op, Takes(o) PROVE Lifecycle!Accept(o)
  <2>1. Lifecycle!Open = {p \in Op : phase[p] \in Holding}
    BY DEF Lifecycle!Open, lifecycleStatus, Live, Stuck
  <2>2. \A p \in Lifecycle!Open : AppOf[p] # AppOf[o]
    BY <1>1, <2>1 DEF Takes, GuardInv
  <2>3. Lifecycle!Cardinality(Lifecycle!Open) < MaxConcurrent
    <3>1. Cardinality(guard) \in Nat /\ MaxConcurrent \in Nat
      BY FS_CardinalityType, ConstantsAssumption DEF GuardInv, ConstantsAssumption
    <3>2. /\ Cardinality(Lifecycle!Open) \in Nat
          /\ Cardinality(Lifecycle!Open) <= Cardinality(guard)
      BY <2>1, HoldersBounded
    <3>3. Lifecycle!Cardinality(Lifecycle!Open) = Cardinality(Lifecycle!Open)
      BY DEF Lifecycle!Cardinality, Cardinality
    <3> QED
      BY <1>1, <3>1, <3>2, <3>3 DEF Takes
  <2>4. lifecycleStatus[o] = "new"
    BY <1>1 DEF Takes, lifecycleStatus
  <2>5. lifecycleStatus' = [lifecycleStatus EXCEPT ![o] = "open"]
    BY <1>1 DEF Takes, TypeOK, lifecycleStatus, Live
  <2> QED
    BY <2>2, <2>3, <2>4, <2>5 DEF Lifecycle!Accept
<1>2. ASSUME NEW o \in Op, Frees(o) PROVE Lifecycle!End(o)
  <2>1. lifecycleStatus[o] = "open"
    BY <1>2 DEF Frees, lifecycleStatus, Live, Stuck
  <2>2. lifecycleStatus' = [lifecycleStatus EXCEPT ![o] = "ended"]
    BY <1>2 DEF Frees, TypeOK, lifecycleStatus, Live, Stuck, Over
  <2> QED
    BY <2>1, <2>2 DEF Lifecycle!End
<1>3. CASE SameHolders
  BY <1>3 DEF SameHolders, lifecycleStatus
<1>4. CASE DropsAll
  <2>1. lifecycleStatus' = [o \in Op |-> IF lifecycleStatus[o] = "open" THEN "ended"
                                         ELSE lifecycleStatus[o]]
    BY <1>4 DEF DropsAll, lifecycleStatus
  <2> QED
    BY <2>1 DEF Lifecycle!EndAll, Lifecycle!Next
<1> QED
  BY <1>1, <1>2, <1>3, <1>4, StepKinds DEF Lifecycle!Next

\* Admission, execution, failures, purges and restarts of the service are
\* steps of OperationLifecycle or invisible to it.
THEOREM ImplementsLifecycle == Spec => LifecycleSpec
<1>1. Init => Lifecycle!Init
  BY DEF Init, Lifecycle!Init, lifecycleStatus
<1> QED
  BY <1>1, GuardInvariant, StepRefines, PTL DEF Spec, LifecycleSpec, Lifecycle!Spec

-------------------------------------------------------------------------------
(* The stored outcome and the announced one. *)

\* Progress patches are the only writes that do not wait for the operation:
\* without them the row is written, then the event emitted, then both kept.
OutcomeInv ==
    \A o \in Op :
        /\ writing[o] + emitting[o] <= ticks[o]
        /\ phase[o] \in Live \ {"insert"} => row[o] # "absent"
        /\ ticks[o] = 0 =>
            /\ phase[o] = "successWritten" => row[o] = "success"
            /\ phase[o] = "errorWritten" => row[o] = "error"
            /\ latest[o] \in Terminal => phase[o] = "done" /\ row[o] = latest[o]

LEMMA InitOutcomeInv == Init => OutcomeInv
BY DEF Init, OutcomeInv, Live, Terminal

LEMMA NextOutcomeInv == TypeOK /\ OutcomeInv /\ [Next]_vars => OutcomeInv'
<1> SUFFICES ASSUME TypeOK, OutcomeInv, [Next]_vars PROVE OutcomeInv'
  OBVIOUS
<1> USE DEF OutcomeInv, Live, Stuck, Over, Active, Terminal, Goto, SetRow, Emit,
            progress, upkeep
<1>0. ticks \in [Op -> Nat] /\ writing \in [Op -> Nat] /\ emitting \in [Op -> Nat]
  BY ConstantsAssumption DEF ConstantsAssumption, TypeOK
<1>1. ASSUME NEW o \in Op, Admit(o) PROVE OutcomeInv'
  BY <1>1 DEF Admit, TypeOK
<1>2. ASSUME NEW o \in Op, Handler(o) PROVE OutcomeInv'
  <2>1. CASE InsertRow(o)
    BY <2>1 DEF InsertRow, TypeOK
  <2>2. CASE StartWrite(o)
    BY <2>2 DEF StartWrite, TypeOK
  <2>3. CASE StartEmit(o)
    BY <2>3 DEF StartEmit, TypeOK
  <2>4. CASE StepWrite(o)
    BY <2>4 DEF StepWrite, TypeOK
  <2>5. CASE StepEmit(o)
    BY <2>5 DEF StepEmit, TypeOK
  <2>6. CASE PullEnds(o)
    BY <2>6 DEF PullEnds, TypeOK
  <2>7. CASE BodyEnds(o)
    BY <2>7 DEF BodyEnds, TypeOK
  <2>8. CASE FinalWrite(o)
    BY <2>8 DEF FinalWrite, TypeOK
  <2>9. CASE FinalEmit(o)
    BY <2>9 DEF FinalEmit, TypeOK
  <2> QED
    BY <1>2, <2>1, <2>2, <2>3, <2>4, <2>5, <2>6, <2>7, <2>8, <2>9 DEF Handler
<1>3. ASSUME NEW o \in Op, DatabaseFails(o) PROVE OutcomeInv'
  BY <1>3 DEF DatabaseFails, InsertFails, StartFails, SuccessWriteFails, ErrorWriteFails, TypeOK
<1>4. ASSUME NEW o \in Op, Progress(o) PROVE OutcomeInv'
  <2>1. CASE Tick(o)
    BY <1>0, <2>1 DEF Tick, TypeOK
  <2>2. CASE ProgressWrite(o)
    BY <1>0, <2>2 DEF ProgressWrite, TypeOK
  <2>3. CASE ProgressFails(o)
    BY <1>0, <2>3 DEF ProgressFails, TypeOK
  <2>4. CASE ProgressEmit(o)
    BY <1>0, <2>4 DEF ProgressEmit, TypeOK
  <2> QED
    BY <1>4, <2>1, <2>2, <2>3, <2>4 DEF Progress
<1>5. ASSUME NEW o \in Op, Purge(o) PROVE OutcomeInv'
  BY <1>5 DEF Purge, TypeOK
<1>6. CASE Prune
  BY <1>6 DEF Prune, TypeOK
<1>7. CASE MarkStale
  BY <1>7 DEF MarkStale, TypeOK
<1>8. CASE MarkStaleFails \/ UNCHANGED vars
  BY <1>8 DEF MarkStaleFails, vars
<1>9. CASE Restart
  BY <1>0, <1>9 DEF Restart, TypeOK
<1> QED
  BY <1>1, <1>2, <1>3, <1>4, <1>5, <1>6, <1>7, <1>8, <1>9 DEF Next

\* The outcome announced to subscribers is the one stored, unless a progress
\* tick of the operation was left in flight.
THEOREM AnnouncedIsStored == Spec => []EventMatchesRow
<1>1. OutcomeInv => EventMatchesRow
  BY DEF OutcomeInv, EventMatchesRow
<1> QED
  BY <1>1, InitTypeOK, NextTypeOK, InitOutcomeInv, NextOutcomeInv, PTL DEF Spec

-------------------------------------------------------------------------------
(* After the end of an operation. *)

\* What one step may do to an operation that is over.
Quiet(o) ==
    phase[o] \in Over =>
        /\ writing'[o] <= writing[o]
        /\ writing[o] = 0 =>
              \/ row'[o] \in {row[o], "absent"}
              \/ row[o] \in Active /\ row'[o] = "error"

LEMMA NextQuiet ==
    ASSUME TypeOK, [Next]_vars, NEW q \in Op
    PROVE  Quiet(q)
<1> SUFFICES ASSUME phase[q] \in Over PROVE Quiet(q)
  BY DEF Quiet
<1> USE DEF Quiet, Over, Goto, SetRow, progress, upkeep
<1>0. writing \in [Op -> Nat] /\ row \in [Op -> {"absent"} \cup Active \cup Terminal]
  BY DEF TypeOK
<1>1. ASSUME NEW o \in Op, Admit(o) PROVE Quiet(q)
  BY <1>0, <1>1 DEF Admit
<1>2. ASSUME NEW o \in Op, Handler(o) PROVE Quiet(q)
  BY <1>0, <1>2 DEF Handler, InsertRow, StartWrite, StartEmit, StepWrite, StepEmit,
                    PullEnds, BodyEnds, FinalWrite, FinalEmit
<1>3. ASSUME NEW o \in Op, DatabaseFails(o) PROVE Quiet(q)
  BY <1>0, <1>3 DEF DatabaseFails, InsertFails, StartFails, SuccessWriteFails, ErrorWriteFails
<1>4. ASSUME NEW o \in Op, Progress(o) PROVE Quiet(q)
  <2>1. CASE Tick(o) \/ ProgressEmit(o)
    BY <1>0, <2>1 DEF Tick, ProgressEmit
  <2>2. CASE ProgressWrite(o) \/ ProgressFails(o)
    BY <1>0, <2>2 DEF ProgressWrite, ProgressFails
  <2> QED
    BY <1>4, <2>1, <2>2 DEF Progress
<1>5. ASSUME NEW o \in Op, Purge(o) PROVE Quiet(q)
  BY <1>0, <1>5 DEF Purge
<1>6. CASE Prune \/ MarkStale
  BY <1>0, <1>6 DEF Prune, MarkStale, Active
<1>7. CASE MarkStaleFails \/ UNCHANGED vars
  BY <1>0, <1>7 DEF MarkStaleFails, vars
<1>8. CASE Restart
  BY <1>0, <1>8 DEF Restart
<1> QED
  BY <1>1, <1>2, <1>3, <1>4, <1>5, <1>6, <1>7, <1>8 DEF Next

\* Clearing the interval at the end of a pull is enough: an operation that is
\* over starts no progress patch, and only those in flight touch its row.
THEOREM QuietAfterEnd == Spec => QuietWhenOver
<1>1. TypeOK /\ [Next]_vars =>
        [\A o \in Op : phase[o] \in Over =>
            /\ writing'[o] <= writing[o]
            /\ writing[o] = 0 =>
                  \/ row'[o] \in {row[o], "absent"}
                  \/ row[o] \in Active /\ row'[o] = "error"]_vars
  BY NextQuiet DEF Quiet
<1> QED
  BY <1>1, TypeCorrect, PTL DEF Spec, QuietWhenOver

-------------------------------------------------------------------------------
(* What InterruptedResolved rests on: the sweep is still to come for what a crash left. *)

\* An operation that the process died under has no patch in flight, and a row that says it is
\* active waits for the sweep, unless that failed.
LostAwaitsSweep ==
    \A o \in Op : phase[o] = "lost" =>
        /\ writing[o] = 0 /\ emitting[o] = 0
        /\ row[o] \in Active => sweep \in {"pending", "failed"}

LEMMA NextLost == TypeOK /\ LostAwaitsSweep /\ [Next]_vars => LostAwaitsSweep'
<1> SUFFICES ASSUME TypeOK, LostAwaitsSweep, [Next]_vars PROVE LostAwaitsSweep'
  OBVIOUS
<1> USE DEF LostAwaitsSweep, Goto, SetRow, progress, upkeep
<1>0. /\ phase \in [Op -> {"idle"} \cup Live \cup Stuck \cup Over]
      /\ row \in [Op -> {"absent"} \cup Active \cup Terminal]
      /\ writing \in [Op -> Nat] /\ emitting \in [Op -> Nat]
  BY DEF TypeOK
<1>1. ASSUME NEW o \in Op, Admit(o) \/ Purge(o) PROVE LostAwaitsSweep'
  BY <1>0, <1>1 DEF Admit, Purge
<1>2. ASSUME NEW o \in Op, Handler(o) PROVE LostAwaitsSweep'
  BY <1>0, <1>2 DEF Handler, InsertRow, StartWrite, StartEmit, StepWrite, StepEmit,
                    PullEnds, BodyEnds, FinalWrite, FinalEmit
<1>3. ASSUME NEW o \in Op, DatabaseFails(o) PROVE LostAwaitsSweep'
  BY <1>0, <1>3 DEF DatabaseFails, InsertFails, StartFails, SuccessWriteFails, ErrorWriteFails
<1>4. ASSUME NEW o \in Op, Progress(o) PROVE LostAwaitsSweep'
  <2>1. phase[o] # "lost"
    BY <1>0, <1>4 DEF Progress, Tick, ProgressWrite, ProgressFails, ProgressEmit
  <2>2. CASE Tick(o) \/ ProgressEmit(o)
    BY <1>0, <2>1, <2>2 DEF Tick, ProgressEmit
  <2>3. CASE ProgressWrite(o) \/ ProgressFails(o)
    BY <1>0, <2>1, <2>3 DEF ProgressWrite, ProgressFails
  <2>4. QED
    BY <1>4, <2>2, <2>3 DEF Progress
<1>5. CASE Prune \/ MarkStale
  BY <1>0, <1>5 DEF Prune, MarkStale, Active
<1>6. CASE MarkStaleFails \/ UNCHANGED vars
  BY <1>6 DEF MarkStaleFails, vars
<1>7. CASE Restart
  BY <1>0, <1>7 DEF Restart
<1>8. QED
  BY <1>1, <1>2, <1>3, <1>4, <1>5, <1>6, <1>7 DEF Next

\* markStaleOperationsAsError: for any number of operations, faults and restarts, a row that a
\* crash left queued or running has the sweep of the new process before it, or that sweep failed;
\* no patch of the old process makes it active again.
THEOREM LostRowsAwaitSweep == Spec => []LostAwaitsSweep
<1>1. Init => LostAwaitsSweep
  BY DEF Init, LostAwaitsSweep
<1>2. QED
  BY <1>1, NextLost, TypeCorrect, PTL DEF Spec

-------------------------------------------------------------------------------
(* The clients that follow them. *)

\* Without progress ticks, a row says success only after its own final patch, and until the
\* grace window closes the cached event says so too.
RowInv(o) ==
    ticks[o] = 0 =>
        /\ phase[o] \in ({"idle"} \cup Live) \ {"successWritten"} => row[o] # "success"
        /\ phase[o] = "done" /\ row[o] = "success" => latest[o] = "success"
        /\ phase[o] = "purged" => latest[o] = "none"

SuccessInv == \A o \in Op : RowInv(o)

Forgotten(o) == phase[o] = "purged" /\ row[o] = "success"

Request ==
    [at : {"idle", "reading", "open"}, op : Op \cup {"none"},
     first : {"none"} \cup Active \cup Terminal,
     ended : BOOLEAN, subscribed : BOOLEAN, heartbeat : BOOLEAN]

\* A request that reads the row of an operation long over has read the outcome; one that
\* follows is subscribed, and what it follows is not announced yet.
Watch(c) ==
    LET o == stream[c].op
    IN /\ stream[c].at # "idle" => o \in Op
       /\ stream[c].at = "reading" /\ ticks[o] = 0 /\ Forgotten(o) => stream[c].first = "success"
       /\ Following(c) => stream[c].subscribed
       /\ Following(c) /\ ticks[o] = 0 => latest[o] \notin Terminal /\ ~Forgotten(o)

WatchInv == \A c \in Client : Watch(c)

Inv == TypeOK /\ OutcomeInv /\ SuccessInv /\ StreamTypeOK /\ WatchInv

-------------------------------------------------------------------------------
(* The operations *)

\* Steps of an operation leave what RowInv says of it.
LEMMA NextSuccessInv ==
    ASSUME TypeOK, OutcomeInv, SuccessInv, [Next]_vars
    PROVE  SuccessInv'
<1> SUFFICES ASSUME NEW q \in Op PROVE RowInv(q)'
  BY DEF SuccessInv
<1> USE DEF RowInv, Live, Stuck, Over, Active, Terminal, Goto, SetRow, Emit, progress, upkeep
<1>0. /\ RowInv(q) /\ ticks[q] \in Nat /\ emitting[q] \in Nat /\ writing[q] \in Nat
      /\ writing[q] + emitting[q] <= ticks[q]
      /\ ticks[q] = 0 => (phase[q] = "errorWritten" => row[q] = "error")
      /\ ticks[q] = 0 => (phase[q] = "successWritten" => row[q] = "success")
  BY ConstantsAssumption DEF ConstantsAssumption, TypeOK, OutcomeInv, SuccessInv
<1>1. ASSUME NEW o \in Op, Admit(o) PROVE RowInv(q)'
  BY <1>0, <1>1 DEF Admit, TypeOK
<1>2. ASSUME NEW o \in Op, Handler(o) PROVE RowInv(q)'
  <2>1. CASE InsertRow(o)
    BY <1>0, <2>1 DEF InsertRow, TypeOK
  <2>2. CASE StartWrite(o)
    BY <1>0, <2>2 DEF StartWrite, TypeOK
  <2>3. CASE StartEmit(o)
    BY <1>0, <2>3 DEF StartEmit, TypeOK
  <2>4. CASE StepWrite(o)
    BY <1>0, <2>4 DEF StepWrite, TypeOK
  <2>5. CASE StepEmit(o)
    BY <1>0, <2>5 DEF StepEmit, TypeOK
  <2>6. CASE PullEnds(o)
    BY <1>0, <2>6 DEF PullEnds, TypeOK
  <2>7. CASE BodyEnds(o)
    BY <1>0, <2>7 DEF BodyEnds, TypeOK
  <2>8. CASE FinalWrite(o)
    BY <1>0, <2>8 DEF FinalWrite, TypeOK
  <2>9. CASE FinalEmit(o)
    BY <1>0, <2>9 DEF FinalEmit, TypeOK
  <2> QED
    BY <1>2, <2>1, <2>2, <2>3, <2>4, <2>5, <2>6, <2>7, <2>8, <2>9 DEF Handler
<1>3. ASSUME NEW o \in Op, DatabaseFails(o) PROVE RowInv(q)'
  BY <1>0, <1>3 DEF DatabaseFails, InsertFails, StartFails, SuccessWriteFails, ErrorWriteFails,
                    TypeOK
<1>4. ASSUME NEW o \in Op, Progress(o) PROVE RowInv(q)'
  <2>1. CASE Tick(o)
    BY <1>0, <2>1 DEF Tick, TypeOK
  <2>2. CASE ProgressWrite(o)
    BY <1>0, <2>2 DEF ProgressWrite, TypeOK
  <2>3. CASE ProgressFails(o)
    BY <1>0, <2>3 DEF ProgressFails, TypeOK
  <2>4. CASE ProgressEmit(o)
    BY <1>0, <2>4 DEF ProgressEmit, TypeOK
  <2> QED
    BY <1>4, <2>1, <2>2, <2>3, <2>4 DEF Progress
<1>5. ASSUME NEW o \in Op, Purge(o) PROVE RowInv(q)'
  BY <1>0, <1>5 DEF Purge, TypeOK
<1>6. CASE Prune
  BY <1>0, <1>6 DEF Prune, TypeOK
<1>7. CASE MarkStale
  BY <1>0, <1>7 DEF MarkStale, TypeOK
<1>8. CASE MarkStaleFails \/ UNCHANGED vars
  BY <1>0, <1>8 DEF MarkStaleFails, vars
<1>9. CASE Restart
  BY <1>0, <1>9 DEF Restart, TypeOK
<1> QED
  BY <1>1, <1>2, <1>3, <1>4, <1>5, <1>6, <1>7, <1>8, <1>9 DEF Next

\* What a step that is no restart and does not close the grace window of q leaves of it.
Steady(q) ==
    ticks'[q] = 0 => ticks[q] = 0 /\ (Forgotten(q)' => Forgotten(q))

\* No step between the awaits of an operation makes another one forgotten.
LEMMA SilentStep ==
    ASSUME TypeOK, OutcomeInv, NEW o \in Op, Silent(o), NEW q \in Op
    PROVE  latest' = latest /\ Steady(q)
<1> USE DEF Steady, Forgotten, Live, Stuck, Over, Goto, SetRow, progress, upkeep, TypeOK
<1>1. ticks[q] \in Nat
  BY ConstantsAssumption DEF ConstantsAssumption
<1>2. CASE Admit(o) \/ InsertRow(o) \/ StartWrite(o) \/ StepWrite(o)
  BY <1>2 DEF Admit, InsertRow, StartWrite, StepWrite
<1>3. CASE PullEnds(o) \/ BodyEnds(o) \/ FinalWrite(o)
  BY <1>3 DEF PullEnds, BodyEnds, FinalWrite
<1>4. CASE DatabaseFails(o)
  BY <1>4 DEF DatabaseFails, InsertFails, StartFails, SuccessWriteFails, ErrorWriteFails
<1>5. CASE Tick(o)
  BY <1>1, <1>5 DEF Tick
<1>6. CASE ProgressWrite(o) \/ ProgressFails(o)
  BY <1>6 DEF ProgressWrite, ProgressFails
<1> QED
  BY <1>2, <1>3, <1>4, <1>5, <1>6 DEF Silent

\* An emission concerns its operation alone, and changes no row.
LEMMA EmissionStep ==
    ASSUME TypeOK, NEW o \in Op, Emission(o), NEW q \in Op
    PROVE  Steady(q) /\ (q # o => latest'[q] = latest[q])
<1> USE DEF Steady, Forgotten, Goto, Emit, progress, upkeep, TypeOK
<1>1. CASE StartEmit(o) \/ StepEmit(o)
  BY <1>1 DEF StartEmit, StepEmit
<1>2. CASE ProgressEmit(o)
  BY <1>2 DEF ProgressEmit
<1>3. CASE FinalEmit(o)
  BY <1>3 DEF FinalEmit
<1> QED
  BY <1>1, <1>2, <1>3 DEF Emission

\* Nor does the upkeep of the rows make an operation forgotten.
LEMMA UpkeepStep ==
    ASSUME TypeOK, Upkeep, NEW q \in Op
    PROVE  latest' = latest /\ Steady(q)
BY DEF Upkeep, Prune, MarkStale, MarkStaleFails, Steady, Forgotten, Active, Terminal, progress, TypeOK

\* The steps of the operations are those of StoreOperations.
LEMMA StreamStepIsStep == StreamNext => [Next]_vars
BY DEF StreamNext, Silent, Emission, PurgeLater, Upkeep, StreamRestart, Start, Abort, Connect,
       Next, Handler, Progress

-------------------------------------------------------------------------------
(* The streams *)

\* A stream that a step leaves alone keeps its watch, if the operation stays what it is.
LEMMA StaysWatching ==
    ASSUME NEW c \in Client, Watch(c), stream'[c] = stream[c],
           stream[c].at # "idle" =>
              /\ Steady(stream[c].op)
              /\ Following(c) /\ ticks'[stream[c].op] = 0 => latest'[stream[c].op] \notin Terminal
    PROVE  Watch(c)'
BY DEF Watch, Following, Steady

\* A stream is told of the end of its operation, in the turn of the emission.
LEMMA DeliverInv ==
    ASSUME Inv, NEW o \in Op, Emission(o)
    PROVE  StreamTypeOK' /\ WatchInv'
<1>1. stream' = [c \in Client |->
          IF /\ stream[c].subscribed /\ stream[c].op = o
             /\ ~stream[c].ended /\ latest'[o] \in Terminal
          THEN [stream[c] EXCEPT !.ended = TRUE, !.subscribed = FALSE]
          ELSE stream[c]]
  BY DEF Emission, Deliver
<1>2. StreamTypeOK'
  BY <1>1 DEF Inv, StreamTypeOK
<1>3. ASSUME NEW c \in Client PROVE Watch(c)'
  <2>1. Watch(c) /\ TypeOK
    BY DEF Inv, WatchInv
  <2>2. CASE stream'[c] = stream[c]
    <3>1. ASSUME stream[c].at # "idle"
          PROVE  /\ Steady(stream[c].op)
                 /\ Following(c) /\ ticks'[stream[c].op] = 0
                      => latest'[stream[c].op] \notin Terminal
      <4>1. stream[c].op \in Op /\ Steady(stream[c].op)
        BY <2>1, <3>1, EmissionStep DEF Watch
      <4>2. CASE stream[c].op = o
        <5>1. Following(c) => stream[c].subscribed /\ ~stream[c].ended
          BY <2>1 DEF Watch, Following
        <5>2. stream[c].subscribed /\ ~stream[c].ended => latest'[o] \notin Terminal
          BY <1>1, <2>2, <4>2 DEF Inv, StreamTypeOK
        <5> QED
          BY <4>1, <4>2, <5>1, <5>2
      <4>3. CASE stream[c].op # o
        BY <2>1, <4>1, <4>3, EmissionStep DEF Watch, Steady
      <4> QED
        BY <4>2, <4>3
    <3> QED
      BY <2>1, <2>2, <3>1, StaysWatching
  <2>3. CASE stream'[c] # stream[c]
    <3>1. /\ stream'[c] = [stream[c] EXCEPT !.ended = TRUE, !.subscribed = FALSE]
          /\ stream[c].subscribed /\ stream[c].op = o
      BY <1>1, <2>3
    <3>2. stream'[c].ended /\ stream'[c].op = o
          /\ stream'[c].at = stream[c].at /\ stream'[c].first = stream[c].first
      BY <3>1 DEF Inv, StreamTypeOK
    <3>3. Steady(o)
      BY <2>1, EmissionStep
    <3> QED
      BY <2>1, <3>1, <3>2, <3>3 DEF Watch, Following, Steady
  <2> QED
    BY <2>2, <2>3
<1> QED
  BY <1>2, <1>3 DEF WatchInv

\* The request that has read the row starts from the cached event, if there is one.
LEMMA StartInv ==
    ASSUME Inv, NEW c \in Client, Start(c)
    PROVE  StreamTypeOK' /\ WatchInv'
<1> DEFINE o == stream[c].op
           first == IF latest[o] # "none" THEN latest[o] ELSE stream[c].first
<1>1. /\ stream[c].at = "reading" /\ UNCHANGED vars
      /\ stream' = [stream EXCEPT ![c].at = "open", ![c].first = first,
                                  ![c].ended = first \in Terminal,
                                  ![c].subscribed = TRUE, ![c].heartbeat = TRUE]
  BY DEF Start
<1>2. Watch(c) /\ o \in Op
  BY <1>1 DEF Inv, WatchInv, Watch
<1>3. first \in {"none"} \cup Active \cup Terminal
  BY <1>2 DEF Inv, TypeOK, StreamTypeOK, Active, Terminal
<1> HIDE DEF first
<1>4. StreamTypeOK'
  <2>1. stream \in [Client -> Request]
    BY DEF Inv, StreamTypeOK, Request
  <2> DEFINE over == first \in Terminal
  <2>2. over \in BOOLEAN
    OBVIOUS
  <2>3. stream' = [stream EXCEPT ![c] = [stream[c] EXCEPT !.at = "open", !.first = first,
                                            !.ended = over,
                                            !.subscribed = TRUE, !.heartbeat = TRUE]]
    BY <1>1, <2>1
  <2> HIDE DEF over
  <2>4. [stream[c] EXCEPT !.at = "open", !.first = first, !.ended = over,
                          !.subscribed = TRUE, !.heartbeat = TRUE] \in Request
    BY <1>3, <2>1, <2>2 DEF Request
  <2> QED
    BY <2>1, <2>3, <2>4 DEF StreamTypeOK, Request
<1>5. UNCHANGED <<phase, row, latest, ticks>>
  BY <1>1 DEF vars, progress
<1>6. /\ stream'[c].at = "open" /\ stream'[c].op = o /\ stream'[c].subscribed
      /\ stream'[c].ended = (first \in Terminal)
  BY <1>1 DEF Inv, StreamTypeOK
<1>7. first \notin Terminal /\ ticks[o] = 0 => latest[o] \notin Terminal /\ ~Forgotten(o)
  BY <1>1, <1>2 DEF first, Watch, Forgotten, Inv, SuccessInv, RowInv, Terminal
<1>8. Watch(c)'
  BY <1>2, <1>5, <1>6, <1>7 DEF Watch, Following, Forgotten
<1>9. ASSUME NEW d \in Client \ {c} PROVE Watch(d)'
  BY <1>1, <1>5 DEF Inv, WatchInv, StreamTypeOK, Watch, Following, Forgotten
<1> QED
  BY <1>4, <1>8, <1>9 DEF WatchInv

\* A connection reads the row as it is; one that goes away follows nothing.
LEMMA ClientInv ==
    ASSUME Inv, NEW c \in Client, Abort(c) \/ \E o \in Op : Connect(c, o)
    PROVE  StreamTypeOK' /\ WatchInv'
<1>0. stream \in [Client -> Request]
  BY DEF Inv, StreamTypeOK, Request
<1>1. /\ UNCHANGED <<phase, row, latest, ticks>>
      /\ stream' \in [Client -> Request] /\ \A d \in Client \ {c} : stream'[d] = stream[d]
      /\ Watch(c)'
  <2>1. CASE Abort(c)
    <3>1. /\ UNCHANGED <<phase, row, latest, ticks>>
          /\ stream' = [stream EXCEPT ![c].heartbeat = FALSE, ![c].ended = TRUE,
                                      ![c].subscribed = @ /\ stream[c].ended]
      BY <2>1 DEF Abort, vars, progress
    <3>2. [stream[c] EXCEPT !.heartbeat = FALSE, !.ended = TRUE,
                            !.subscribed = @ /\ stream[c].ended] \in Request
      BY <1>0 DEF Request
    <3>3. stream' = [stream EXCEPT ![c] = [stream[c] EXCEPT !.heartbeat = FALSE, !.ended = TRUE,
                                              !.subscribed = @ /\ stream[c].ended]]
      BY <1>0, <3>1
    <3>4. /\ stream'[c].ended /\ stream'[c].at = stream[c].at
          /\ stream'[c].op = stream[c].op /\ stream'[c].first = stream[c].first
      BY <1>0, <3>3 DEF Request
    <3>5. Watch(c)'
      BY <3>1, <3>4 DEF Inv, WatchInv, Watch, Following, Forgotten
    <3> QED
      BY <1>0, <3>1, <3>2, <3>3, <3>5
  <2>2. ASSUME NEW o \in Op, Connect(c, o)
        PROVE  /\ UNCHANGED <<phase, row, latest, ticks>>
               /\ stream' \in [Client -> Request]
               /\ \A d \in Client \ {c} : stream'[d] = stream[d]
               /\ Watch(c)'
    <3>1. /\ UNCHANGED <<phase, row, latest, ticks>> /\ row[o] # "absent"
          /\ stream' = [stream EXCEPT ![c] = [NoStream EXCEPT !.at = "reading", !.op = o,
                                                              !.first = row[o]]]
      BY <2>2 DEF Connect, vars, progress
    <3>2. row[o] \in Active \cup Terminal
      BY <3>1 DEF Inv, TypeOK
    <3>3. NoStream \in Request
      BY DEF NoStream, Request
    <3>4. [NoStream EXCEPT !.at = "reading", !.op = o, !.first = row[o]] \in Request
      BY <3>2, <3>3 DEF Request
    <3>5. /\ stream'[c].at = "reading" /\ stream'[c].op = o /\ stream'[c].first = row[o]
      BY <1>0, <3>1, <3>3 DEF Request
    <3>6. Watch(c)'
      BY <3>1, <3>5 DEF Watch, Following, Forgotten
    <3> QED
      BY <1>0, <3>1, <3>4, <3>6
  <2> QED
    BY <2>1, <2>2
<1>2. StreamTypeOK'
  BY <1>1 DEF StreamTypeOK, Request
<1>3. Watch(c)'
  BY <1>1
<1>4. ASSUME NEW d \in Client \ {c} PROVE Watch(d)'
  BY <1>1 DEF Inv, WatchInv, Watch, Following, Forgotten
<1> QED
  BY <1>2, <1>3, <1>4 DEF WatchInv

\* The grace window closes when nobody stands between reading the row and subscribing; whoever
\* follows then follows no success, for the cached event would have told.
LEMMA PurgeInv ==
    ASSUME Inv, NEW o \in Op, PurgeLater(o)
    PROVE  StreamTypeOK' /\ WatchInv'
<1>1. /\ phase[o] = "done" /\ phase' = [phase EXCEPT ![o] = "purged"]
      /\ latest' = [latest EXCEPT ![o] = "none"]
      /\ UNCHANGED <<row, ticks, stream>>
      /\ \A c \in Client : ~(stream[c].at = "reading" /\ stream[c].op = o)
  BY DEF PurgeLater, Purge, Goto, progress
<1>2. phase \in [Op -> {"idle"} \cup Live \cup Stuck \cup Over]
      /\ latest \in [Op -> {"none", "running"} \cup Terminal]
  BY DEF Inv, TypeOK
<1>3. RowInv(o)
  BY DEF Inv, SuccessInv
<1>4. ASSUME NEW c \in Client PROVE Watch(c)'
  <2>1. Watch(c)
    BY DEF Inv, WatchInv
  <2>2. CASE stream[c].op = o
    BY <1>1, <1>2, <1>3, <2>1, <2>2 DEF Watch, Following, Forgotten, RowInv, Terminal
  <2>3. CASE stream[c].op # o
    BY <1>1, <1>2, <2>1, <2>3 DEF Watch, Following, Forgotten
  <2> QED
    BY <2>2, <2>3
<1> QED
  BY <1>1, <1>4 DEF Inv, StreamTypeOK, WatchInv

\* Steps that neither emit nor move a stream.
LEMMA QuietInv ==
    ASSUME Inv, stream' = stream, latest' = latest, \A q \in Op : Steady(q)
    PROVE  StreamTypeOK' /\ WatchInv'
<1>1. ASSUME NEW c \in Client PROVE Watch(c)'
  BY DEF Inv, WatchInv, Watch, Following, Steady
<1> QED
  BY <1>1 DEF Inv, StreamTypeOK, WatchInv

\* Every step keeps Inv.
LEMMA NextInv == Inv /\ [StreamNext]_streamVars => Inv'
<1> SUFFICES ASSUME Inv, [StreamNext]_streamVars PROVE Inv'
  OBVIOUS
<1>1. [Next]_vars
  BY StreamStepIsStep DEF streamVars
<1>2. TypeOK' /\ OutcomeInv' /\ SuccessInv'
  BY <1>1, NextTypeOK, NextOutcomeInv, NextSuccessInv DEF Inv
<1>3. StreamTypeOK' /\ WatchInv'
  <2>1. ASSUME NEW o \in Op, Silent(o) PROVE StreamTypeOK' /\ WatchInv'
    <3>1. stream' = stream /\ latest' = latest /\ \A q \in Op : Steady(q)
      BY <2>1, SilentStep DEF Inv, Silent
    <3> QED
      BY <3>1, QuietInv
  <2>2. CASE Upkeep
    <3>1. stream' = stream /\ latest' = latest /\ \A q \in Op : Steady(q)
      BY <2>2, UpkeepStep DEF Inv, Upkeep, Prune, MarkStale, MarkStaleFails
    <3> QED
      BY <3>1, QuietInv
  <2>3. CASE StreamRestart
    BY <2>3 DEF StreamRestart, NoStream, StreamTypeOK, WatchInv, Watch, Following
  <2>4. CASE UNCHANGED streamVars
    BY <2>4 DEF streamVars, vars, progress, Inv, StreamTypeOK, WatchInv, Watch, Following, Forgotten
  <2> QED
    BY <2>1, <2>2, <2>3, <2>4, DeliverInv, StartInv, ClientInv, PurgeInv DEF StreamNext
<1> QED
  BY <1>2, <1>3 DEF Inv

\* Inv holds before any request.
LEMMA InitInv == StreamInit => Inv
<1> SUFFICES ASSUME StreamInit PROVE Inv
  OBVIOUS
<1>1. TypeOK /\ OutcomeInv
  BY InitTypeOK, InitOutcomeInv DEF StreamInit
<1>2. SuccessInv
  BY DEF StreamInit, Init, SuccessInv, RowInv
<1>3. StreamTypeOK /\ WatchInv
  BY DEF StreamInit, NoStream, StreamTypeOK, WatchInv, Watch, Following
<1> QED
  BY <1>1, <1>2, <1>3 DEF Inv

\* Whatever a request stands at when an operation ends, it does not go on waiting for an
\* operation whose outcome has been announced, or that is long over and stored as a success.
THEOREM NobodyMissesTheEnd == StreamSpec => []NoMissedEnd
<1>1. Inv => NoMissedEnd
  BY DEF Inv, WatchInv, Watch, NoMissedEnd, Forgotten
<1> QED
  BY <1>1, InitInv, NextInv, PTL DEF StreamSpec

\* The streams keep their type.
THEOREM StreamTypeCorrect == StreamSpec => []StreamTypeOK
<1>1. Inv => StreamTypeOK
  BY DEF Inv
<1> QED
  BY <1>1, InitInv, NextInv, PTL DEF StreamSpec

=================================================================================
