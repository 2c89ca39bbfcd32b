---------------------------- MODULE StoreOperations ----------------------------
(***************************************************************************)
(* lib/server/modules/apps/operations.ts: how an install, redeploy,        *)
(* update, uninstall, start, stop, restart or check-updates request        *)
(* becomes an operation, and what the guard, the app_operations row and    *)
(* the cached event of that operation go through.  What an operation does  *)
(* to the app (compose files, containers, stack row) is in AppDeployment;  *)
(* here its body is a sequence of progress patches that ends or throws.    *)
(*                                                                         *)
(* A step ends at an await: patchOperationAndEmit is an UPDATE of the row  *)
(* followed, when the promise resolves, by the event.  The progress ticks  *)
(* of a pull are not awaited, so their two halves interleave with the      *)
(* operation's own.                                                        *)
(***************************************************************************)
EXTENDS Integers, FiniteSets

CONSTANTS
    Op,             \* ids randomUUID can return, one per accepted request
    App,            \* app ids
    AppOf,          \* AppOf[o]: the app whose request gets id o
    MaxConcurrent,  \* STORE_MAX_CONCURRENT_OPERATIONS
    MaxSteps,       \* bound: patches of one body
    MaxTicks,       \* bound: progress ticks of one operation
    MaxFaults,      \* bound: database calls that fail
    MaxRestarts     \* bound: crashes or restarts of the server

ASSUME ConstantsAssumption ==
    /\ IsFiniteSet(Op)
    /\ AppOf \in [Op -> App]
    /\ MaxConcurrent \in Nat \ {0}
    /\ MaxSteps \in Nat /\ MaxTicks \in Nat
    /\ MaxFaults \in Nat /\ MaxRestarts \in Nat

VARIABLES
    guard,      \* activeOperationsByApp
    phase,      \* where the handler of each operation stands
    row,        \* status column of its app_operations row
    latest,     \* status of its entry in latestOperationEvent
    steps,      \* patches its body has issued
    ticks,      \* progress ticks its pulls have fired
    writing,    \* of those, the ones whose UPDATE is in flight
    emitting,   \* of those, the ones written but not yet emitted
    sweep,      \* markStaleOperationsAsError of this server process
    pruning,    \* a pruneFinishedOperations call is in flight
    faults, restarts

progress == <<steps, ticks, writing, emitting>>
upkeep   == <<sweep, pruning>>
budget   == <<faults, restarts>>
vars     == <<guard, phase, row, latest, progress, upkeep, budget>>

Terminal == {"success", "error"}
Active   == {"queued", "running"}

\* An await of the handler, from the guard being taken to its release.
Live == {"insert", "start", "started", "body", "stepped", "pull",
         "success", "successWritten", "error", "errorWritten"}
\* The handler died between taking the guard and the try block.
Stuck == {"stuck"}
Over  == {"refused", "done", "purged", "lost"}

TypeOK ==
    /\ guard \subseteq App
    /\ phase \in [Op -> {"idle"} \cup Live \cup Stuck \cup Over]
    /\ row \in [Op -> {"absent"} \cup Active \cup Terminal]
    /\ latest \in [Op -> {"none", "running"} \cup Terminal]
    /\ steps \in [Op -> 0..MaxSteps]
    /\ ticks \in [Op -> 0..MaxTicks]
    /\ writing \in [Op -> Nat] /\ emitting \in [Op -> Nat]
    /\ sweep \in {"pending", "done", "failed"}
    /\ pruning \in BOOLEAN
    /\ faults \in 0..MaxFaults /\ restarts \in 0..MaxRestarts

Init ==
    /\ guard = {}
    /\ phase = [o \in Op |-> "idle"]
    /\ row = [o \in Op |-> "absent"]
    /\ latest = [o \in Op |-> "none"]
    /\ steps = [o \in Op |-> 0]
    /\ ticks = [o \in Op |-> 0]
    /\ writing = [o \in Op |-> 0]
    /\ emitting = [o \in Op |-> 0]
    /\ sweep = "pending"
    /\ pruning = FALSE
    /\ faults = 0 /\ restarts = 0

-------------------------------------------------------------------------------
(* Helpers *)

Goto(o, from, to) == phase[o] = from /\ phase' = [phase EXCEPT ![o] = to]

Fault == faults < MaxFaults /\ faults' = faults + 1 /\ UNCHANGED restarts

\* updateStoreOperation: UPDATE ... WHERE id = o, whatever the row holds.
SetRow(o, status) ==
    row' = [row EXCEPT ![o] = IF @ = "absent" THEN @ ELSE status]

\* emitEvent: the event becomes the cached one (subscribers: OperationStream).
Emit(o, status) == latest' = [latest EXCEPT ![o] = status]

Release(o) == guard' = guard \ {AppOf[o]}

-------------------------------------------------------------------------------
(* startStoreOperation *)

\* Mutants: the conflict check is missing; the limit check is off by one.
AdmitWithoutConflict(o) ==
    /\ Goto(o, "idle", "insert")
    /\ Cardinality(guard) < MaxConcurrent
    /\ guard' = guard \cup {AppOf[o]}
    /\ pruning' = TRUE
    /\ UNCHANGED <<row, latest, progress, sweep, budget>>

AdmitOneMore(o) ==
    /\ Goto(o, "idle", "insert")
    /\ AppOf[o] \notin guard
    /\ Cardinality(guard) <= MaxConcurrent
    /\ guard' = guard \cup {AppOf[o]}
    /\ pruning' = TRUE
    /\ UNCHANGED <<row, latest, progress, sweep, budget>>

\* Both checks, the guard and the un-awaited prune happen before the first
\* await; a request that fails a check is answered 409 or 429 and changes
\* nothing.
Admit(o) ==
    /\ Goto(o, "idle", "insert")
    /\ AppOf[o] \notin guard
    /\ Cardinality(guard) < MaxConcurrent
    /\ guard' = guard \cup {AppOf[o]}
    /\ pruning' = TRUE
    /\ UNCHANGED <<row, latest, progress, sweep, budget>>

\* createStoreOperation resolves; the microtask starts the first patch.
InsertRow(o) ==
    /\ Goto(o, "insert", "start")
    /\ row' = [row EXCEPT ![o] = "queued"]
    /\ UNCHANGED <<guard, latest, progress, upkeep, budget>>

InsertRetries(o) ==
    /\ Goto(o, "insert", "idle")
    /\ Fault
    /\ Release(o)
    /\ UNCHANGED <<row, latest, progress, upkeep>>

InsertFails(o) ==
    /\ Goto(o, "insert", "refused")
    /\ Fault
    /\ Release(o)
    /\ UNCHANGED <<row, latest, progress, upkeep>>

(* executeStoreOperation *)

StartWrite(o) ==
    /\ Goto(o, "start", "started")
    /\ SetRow(o, "running")
    /\ UNCHANGED <<guard, latest, progress, upkeep, budget>>

\* The first patch is outside the try: its rejection skips the finally.
StartFails(o) ==
    /\ Goto(o, "start", "stuck")
    /\ Fault
    /\ UNCHANGED <<guard, row, latest, progress, upkeep>>

StartEmit(o) ==
    /\ Goto(o, "started", "body")
    /\ Emit(o, "running")
    /\ UNCHANGED <<guard, row, progress, upkeep, budget>>

\* A progress patch of the body; the pull follows the emission of some.
StepWrite(o) ==
    /\ Goto(o, "body", "stepped")
    /\ steps[o] < MaxSteps
    /\ steps' = [steps EXCEPT ![o] = @ + 1]
    /\ SetRow(o, "running")
    /\ UNCHANGED <<guard, latest, ticks, writing, emitting, upkeep, budget>>

StepEmit(o) ==
    /\ Goto(o, "stepped", "body") \/ Goto(o, "stepped", "pull")
    /\ Emit(o, "running")
    /\ UNCHANGED <<guard, row, progress, upkeep, budget>>

(* pullImagesWithProgress *)

Tick(o) ==
    /\ phase[o] = "pull"
    /\ ticks[o] < MaxTicks
    /\ ticks' = [ticks EXCEPT ![o] = @ + 1]
    /\ writing' = [writing EXCEPT ![o] = @ + 1]
    /\ UNCHANGED <<guard, phase, row, latest, steps, emitting, upkeep, budget>>

\* Mutant: no DOCKER_COMPOSE_TIMEOUT_MS, a pull without progress hangs.
PullHangs(o) ==
    /\ ticks[o] > 0
    /\ Goto(o, "pull", "body") \/ Goto(o, "pull", "error")
    /\ UNCHANGED <<guard, row, latest, progress, upkeep, budget>>

\* docker compose pull ends or fails; either way the interval is cleared,
\* and the patches it has started are left to finish on their own.
PullEnds(o) ==
    /\ Goto(o, "pull", "body") \/ Goto(o, "pull", "error")
    /\ UNCHANGED <<guard, row, latest, progress, upkeep, budget>>

ProgressWrite(o) ==
    /\ writing[o] > 0
    /\ writing' = [writing EXCEPT ![o] = @ - 1]
    /\ emitting' = [emitting EXCEPT ![o] = @ + 1]
    /\ SetRow(o, "running")
    /\ UNCHANGED <<guard, phase, latest, steps, ticks, upkeep, budget>>

ProgressFails(o) ==
    /\ writing[o] > 0
    /\ writing' = [writing EXCEPT ![o] = @ - 1]
    /\ Fault
    /\ UNCHANGED <<guard, phase, row, latest, steps, ticks, emitting, upkeep>>

ProgressEmit(o) ==
    /\ emitting[o] > 0
    /\ emitting' = [emitting EXCEPT ![o] = @ - 1]
    /\ Emit(o, "running")
    /\ UNCHANGED <<guard, phase, row, steps, ticks, writing, upkeep, budget>>

(* the end of executeStoreOperation *)

BodyEnds(o) ==
    /\ Goto(o, "body", "success") \/ Goto(o, "body", "error")
    /\ UNCHANGED <<guard, row, latest, progress, upkeep, budget>>

FinalWrite(o) ==
    /\ \/ Goto(o, "success", "successWritten") /\ SetRow(o, "success")
       \/ Goto(o, "error", "errorWritten") /\ SetRow(o, "error")
    /\ UNCHANGED <<guard, latest, progress, upkeep, budget>>

\* Mutant: the failure is swallowed and the event emitted all the same.
SuccessWriteSwallowed(o) ==
    /\ Goto(o, "success", "successWritten")
    /\ Fault
    /\ UNCHANGED <<guard, row, latest, progress, upkeep>>

\* A failed "completed" patch is caught like any error of the body; a failed
\* "failed" patch leaves the catch block, through the finally.
SuccessWriteFails(o) ==
    /\ Goto(o, "success", "error")
    /\ Fault
    /\ UNCHANGED <<guard, row, latest, progress, upkeep>>

ErrorWriteFails(o) ==
    /\ Goto(o, "error", "done")
    /\ Fault
    /\ Release(o)
    /\ UNCHANGED <<row, latest, progress, upkeep>>

\* emitEvent, the un-awaited notification and the finally run in one turn.
FinalEmit(o) ==
    /\ \/ Goto(o, "successWritten", "done") /\ Emit(o, "success")
       \/ Goto(o, "errorWritten", "done") /\ Emit(o, "error")
    /\ Release(o)
    /\ UNCHANGED <<row, progress, upkeep, budget>>

\* The timer armed in the finally.
Purge(o) ==
    /\ Goto(o, "done", "purged")
    /\ latest' = [latest EXCEPT ![o] = "none"]
    /\ UNCHANGED <<guard, row, progress, upkeep, budget>>

-------------------------------------------------------------------------------
(* stacks-repository.ts: work on all rows, and the server process *)

\* The rows of a month ago; an operation still live is not that old.
Prune ==
    /\ pruning
    /\ pruning' = FALSE
    /\ \E old \in SUBSET {o \in Op : row[o] \in Terminal /\ phase[o] \in Over \ {"done"}} :
          row' = [o \in Op |-> IF o \in old THEN "absent" ELSE row[o]]
    /\ UNCHANGED <<guard, phase, latest, progress, sweep, budget>>

\* Mutant: operations still queued at the crash are not looked for.
MarkStaleRunningOnly ==
    /\ sweep = "pending"
    /\ sweep' = "done"
    /\ row' = [o \in Op |-> IF row[o] = "running" THEN "error" ELSE row[o]]
    /\ UNCHANGED <<guard, phase, latest, progress, pruning, budget>>

\* Fired, not awaited, when the module is loaded: requests do not wait for it.
MarkStale ==
    /\ sweep = "pending"
    /\ sweep' = "done"
    /\ row' = [o \in Op |-> IF row[o] \in Active THEN "error" ELSE row[o]]
    /\ UNCHANGED <<guard, phase, latest, progress, pruning, budget>>

MarkStaleFails ==
    /\ sweep = "pending"
    /\ sweep' = "failed"
    /\ Fault
    /\ UNCHANGED <<guard, phase, row, latest, progress, pruning>>

\* A crash or a restart: the rows stay, everything in memory is gone.
Restart ==
    /\ restarts < MaxRestarts
    /\ restarts' = restarts + 1
    /\ guard' = {}
    /\ phase' = [o \in Op |-> IF phase[o] \in Live \cup Stuck THEN "lost"
                              ELSE IF phase[o] = "done" THEN "purged" ELSE phase[o]]
    /\ latest' = [o \in Op |-> "none"]
    /\ writing' = [o \in Op |-> 0]
    /\ emitting' = [o \in Op |-> 0]
    /\ sweep' = "pending"
    /\ pruning' = FALSE
    /\ UNCHANGED <<row, steps, ticks, faults>>

-------------------------------------------------------------------------------
Handler(o) ==
    \/ InsertRow(o) \/ StartWrite(o) \/ StartEmit(o)
    \/ StepWrite(o) \/ StepEmit(o) \/ PullEnds(o) \/ BodyEnds(o)
    \/ FinalWrite(o) \/ FinalEmit(o)

DatabaseFails(o) ==
    InsertFails(o) \/ StartFails(o) \/ SuccessWriteFails(o) \/ ErrorWriteFails(o)

Progress(o) == Tick(o) \/ ProgressWrite(o) \/ ProgressFails(o) \/ ProgressEmit(o)

Next ==
    \/ \E o \in Op : Admit(o) \/ Handler(o) \/ DatabaseFails(o) \/ Progress(o) \/ Purge(o)
    \/ Prune \/ MarkStale \/ MarkStaleFails \/ Restart

Spec == Init /\ [][Next]_vars

\* Every await settles: queries by the pool's timeouts, docker by
\* DOCKER_COMPOSE_TIMEOUT_MS, the health check by its deadline.
Fairness ==
    /\ \A o \in Op : WF_vars(Handler(o)) /\ WF_vars(ProgressWrite(o)) /\ WF_vars(ProgressEmit(o))
    /\ \A o \in Op : WF_vars(Purge(o))
    /\ WF_vars(MarkStale)

FairSpec == Spec /\ Fairness
-------------------------------------------------------------------------------
(* Properties *)

\* Two operations of one app are never in progress together, whatever awaits
\* they stand at (activeOperationsByApp, operations.ts:85-90).
MutualExclusion ==
    \A o, p \in Op :
        phase[o] \in Live /\ phase[p] \in Live /\ AppOf[o] = AppOf[p] => o = p

\* No more than STORE_MAX_CONCURRENT_OPERATIONS operations are in progress.
WithinLimit == Cardinality({o \in Op : phase[o] \in Live}) <= MaxConcurrent

\* The guard holds an app exactly when an operation of that app is in progress
\* or has died before its try block: no other path leaks or loses an entry.
GuardAccounted ==
    guard = {AppOf[o] : o \in {p \in Op : phase[p] \in Live \cup Stuck}}

\* For an operation whose pulls fired no progress tick, the outcome announced
\* to subscribers is the one stored in app_operations: the awaits of
\* executeStoreOperation and of the start-up sweep cannot separate the two.
EventMatchesRow ==
    \A o \in Op : ticks[o] = 0 /\ latest[o] \in Terminal => row[o] = latest[o]

\* Once an operation is over it starts no further progress patch, and when
\* those in flight have landed its row changes only by the start-up sweep or
\* by pruning (clearInterval in pullImagesWithProgress, operations.ts:150-153).
QuietWhenOver ==
    [][\A o \in Op : phase[o] \in Over =>
          /\ writing'[o] <= writing[o]
          /\ writing[o] = 0 =>
                \/ row'[o] \in {row[o], "absent"}
                \/ row[o] \in Active /\ row'[o] = "error"]_vars

\* Every accepted operation ends, unless its first patch failed.
AdmittedEnds == \A o \in Op : phase[o] = "insert" ~> phase[o] \in Over \cup Stuck

\* The row of an operation that a crash interrupted does not stay queued or
\* running, provided the start-up sweep reaches the database.
InterruptedResolved ==
    \A o \in Op : phase[o] = "lost" ~> (row[o] \notin Active \/ sweep = "failed")

\* The service keeps the promise of OperationLifecycle: to its callers an
\* operation is open from the moment it holds the guard until it is released.
lifecycleStatus ==
    [o \in Op |-> IF phase[o] = "idle" THEN "new"
                  ELSE IF phase[o] \in Live \cup Stuck THEN "open" ELSE "ended"]
Lifecycle == INSTANCE OperationLifecycle WITH status <- lifecycleStatus
LifecycleSpec == Lifecycle!Spec

(* What a comment of operations.ts says, and the code does not do *)

\* operations.ts:1227, "Always release the guard so future operations on this
\* app can proceed": an app in the guard has an operation that will release it.
GuardHasOwner ==
    \A a \in guard : \E o \in Op : AppOf[o] = a /\ phase[o] \in Live
===============================================================================
