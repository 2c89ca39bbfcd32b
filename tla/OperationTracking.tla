----------------------------- MODULE OperationTracking -----------------------------
(***************************************************************************)
(* modules/apps/hooks/useStoreActions.ts: how the browser follows the      *)
(* operations of one app. attachOperationTracking shows an operation as    *)
(* queued, fetches its row, subscribes to its events and goes on fetching  *)
(* every 1.5 seconds, until it has seen the end or the row is gone.        *)
(* Answers and events arrive in any order with respect to each other.      *)
(*                                                                         *)
(* The operations are those that StoreOperations admits, one of the app at *)
(* a time, and each ends (its AdmittedEnds); percentages are left out.     *)
(***************************************************************************)
EXTENDS Naturals, Sequences

CONSTANTS
    Operations,     \* bound: the operations of the app, 1 being admitted first
    Slots,          \* bound: fetches of one operation under way at once
    MissingLimit,   \* MISSING_OPERATION_SNAPSHOT_LIMIT
    MaxLosses       \* bound: failing fetches and broken streams

Op == 1..Operations

OperationTrackingAssumption ==
    /\ Operations \in Nat /\ Slots \in Nat \ {0}
    /\ MissingLimit \in Nat \ {0} /\ MaxLosses \in Nat

VARIABLES
    server,         \* status of each row: "unborn" before the request, "pruned" after
    shown,          \* operationsByApp[appId]: operation (0: none) and status
    tracking,       \* of each attachOperationTracking
    fetch,          \* fetches under way: asked, or what the server has answered
    pollTimer,
    missing,        \* missingSnapshotCount
    eventSource,
    wire,           \* events on their way to it
    linger,         \* the timer that takes the operation off the screen
    mounted,        \* the page is there
    losses

trackingVars ==
    <<server, shown, tracking, fetch, pollTimer, missing, eventSource, wire, linger, mounted,
      losses>>

Ended  == {"success", "error"}
Status == {"queued", "running"} \cup Ended

TrackingTypeOK ==
    /\ server \in [Op -> Status \cup {"unborn", "pruned"}]
    /\ shown \in [op : Op \cup {0}, status : Status]
    /\ tracking \in [Op -> {"idle", "first", "on", "stopped"}]
    /\ fetch \in [Op -> [1..Slots -> Status \cup {"free", "asked", "pruned"}]]
    /\ pollTimer \in [Op -> BOOLEAN] /\ linger \in [Op -> BOOLEAN]
    /\ missing \in [Op -> Nat]
    /\ eventSource \in [Op -> {"none", "connecting", "open", "refused"}]
    /\ wire \in [Op -> Seq(Status)]
    /\ mounted \in BOOLEAN /\ losses \in 0..MaxLosses

NothingShown == [op |-> 0, status |-> "queued"]

TrackingInit ==
    /\ server = [o \in Op |-> "unborn"] /\ shown = NothingShown
    /\ tracking = [o \in Op |-> "idle"]
    /\ fetch = [o \in Op |-> [k \in 1..Slots |-> "free"]]
    /\ pollTimer = [o \in Op |-> FALSE] /\ linger = [o \in Op |-> FALSE]
    /\ missing = [o \in Op |-> 0]
    /\ eventSource = [o \in Op |-> "none"] /\ wire = [o \in Op |-> <<>>]
    /\ mounted = TRUE /\ losses = 0

-------------------------------------------------------------------------------
(* The server *)

Admit(o) ==
    /\ server[o] = "unborn" /\ \A p \in 1..(o - 1) : server[p] \in Ended \cup {"pruned"}
    /\ server' = [server EXCEPT ![o] = "queued"]
    /\ UNCHANGED <<shown, tracking, fetch, pollTimer, missing, eventSource, wire, linger,
                   mounted, losses>>

\* The row is patched and the event emitted, to a stream that is open.
Patch(o) ==
    /\ server[o] \in {"queued", "running"}
    /\ \E s \in IF server[o] = "queued" THEN {"running"} ELSE Ended :
          /\ server' = [server EXCEPT ![o] = s]
          /\ wire' = [wire EXCEPT ![o] = IF eventSource[o] = "open" THEN Append(@, s) ELSE @]
    /\ UNCHANGED <<shown, tracking, fetch, pollTimer, missing, eventSource, linger, mounted,
                   losses>>

PruneRow(o) ==
    /\ server[o] \in Ended
    /\ server' = [server EXCEPT ![o] = "pruned"]
    /\ UNCHANGED <<shown, tracking, fetch, pollTimer, missing, eventSource, wire, linger,
                   mounted, losses>>

-------------------------------------------------------------------------------
(* attachOperationTracking *)

FreeFetches(o) == {k \in 1..Slots : fetch[o][k] = "free"}

\* syncSnapshot up to its await.
Sync(o) ==
    /\ FreeFetches(o) # {}
    /\ fetch' = [fetch EXCEPT ![o][CHOOSE k \in FreeFetches(o) : TRUE] = "asked"]

Show(o, status) == shown' = IF mounted THEN [op |-> o, status |-> status] ELSE shown

StopTracking(o) ==
    /\ tracking' = [tracking EXCEPT ![o] = "stopped"]
    /\ pollTimer' = [pollTimer EXCEPT ![o] = FALSE]
    /\ eventSource' = [eventSource EXCEPT ![o] = "none"] /\ wire' = [wire EXCEPT ![o] = <<>>]
    /\ linger' = [linger EXCEPT ![o] = TRUE]

\* The finally of syncSnapshot, and after the first one the subscription.
GoOn(o) ==
    /\ pollTimer' = [pollTimer EXCEPT ![o] = TRUE]
    /\ tracking' = [tracking EXCEPT ![o] = "on"]
    /\ eventSource' = [eventSource EXCEPT ![o] = IF tracking[o] = "first" THEN "connecting" ELSE @]
    /\ UNCHANGED <<wire, linger>>

AttachTracking(o) ==
    /\ mounted /\ server[o] # "unborn" /\ tracking[o] = "idle"
    /\ tracking' = [tracking EXCEPT ![o] = "first"]
    /\ Show(o, "queued") /\ Sync(o)
    /\ UNCHANGED <<server, pollTimer, missing, eventSource, wire, linger, mounted, losses>>

\* The route answers with the row it reads.
AnswerFetch(o, k) ==
    /\ fetch[o][k] = "asked"
    /\ fetch' = [fetch EXCEPT ![o][k] = server[o]]
    /\ UNCHANGED <<server, shown, tracking, pollTimer, missing, eventSource, wire, linger,
                   mounted, losses>>

\* applySnapshotState
ApplyStatus(o, status) ==
    IF tracking[o] = "stopped"
    THEN UNCHANGED <<shown, tracking, pollTimer, missing, eventSource, wire, linger>>
    ELSE /\ Show(o, status)
         /\ missing' = [missing EXCEPT ![o] = 0]
         /\ IF status \in Ended THEN StopTracking(o) ELSE GoOn(o)

\* Mutant: the next fetch is not scheduled when the row is missing.
BadCountMissing(o) ==
    /\ missing' = [missing EXCEPT ![o] = @ + 1]
    /\ IF missing[o] + 1 >= MissingLimit THEN StopTracking(o)
       ELSE UNCHANGED <<tracking, pollTimer, eventSource, wire, linger>>
    /\ UNCHANGED shown

\* The row is not there, which counts even after the end.
CountMissing(o) ==
    /\ missing' = [missing EXCEPT ![o] = @ + 1]
    /\ IF missing[o] + 1 >= MissingLimit THEN StopTracking(o)
       ELSE IF tracking[o] # "stopped" THEN GoOn(o)
       ELSE UNCHANGED <<tracking, pollTimer, eventSource, wire, linger>>
    /\ UNCHANGED shown

ReceiveSnapshot(o, k) ==
    /\ fetch[o][k] \in Status \cup {"pruned"}
    /\ fetch' = [fetch EXCEPT ![o][k] = "free"]
    /\ IF fetch[o][k] = "pruned" THEN CountMissing(o) ELSE ApplyStatus(o, fetch[o][k])
    /\ UNCHANGED <<server, mounted, losses>>

FetchFails(o, k) ==
    /\ fetch[o][k] # "free" /\ losses < MaxLosses
    /\ losses' = losses + 1
    /\ fetch' = [fetch EXCEPT ![o][k] = "free"]
    /\ IF tracking[o] # "stopped" THEN GoOn(o) ELSE UNCHANGED <<tracking, pollTimer,
                                                                eventSource, wire, linger>>
    /\ UNCHANGED <<server, shown, missing, mounted>>

Poll(o) ==
    /\ pollTimer[o]
    /\ pollTimer' = [pollTimer EXCEPT ![o] = FALSE]
    /\ Sync(o)
    /\ UNCHANGED <<server, shown, tracking, missing, eventSource, wire, linger, mounted, losses>>

-------------------------------------------------------------------------------
(* subscribeToStoreOperationEvents *)

\* The stream starts with the status of the row; without a row it is refused for good,
\* which counts as an error.
StreamConnects(o) ==
    /\ eventSource[o] = "connecting"
    /\ IF server[o] = "pruned"
       THEN Sync(o) /\ eventSource' = [eventSource EXCEPT ![o] = "refused"] /\ UNCHANGED wire
       ELSE /\ eventSource' = [eventSource EXCEPT ![o] = "open"]
            /\ wire' = [wire EXCEPT ![o] = <<server[o]>>]
            /\ UNCHANGED fetch
    /\ UNCHANGED <<server, shown, tracking, pollTimer, missing, linger, mounted, losses>>

ReceiveEvent(o) ==
    /\ wire[o] # <<>>
    /\ Show(o, Head(wire[o]))
    /\ IF Head(wire[o]) \in Ended THEN StopTracking(o)
       ELSE wire' = [wire EXCEPT ![o] = Tail(@)] /\ UNCHANGED <<tracking, pollTimer,
                                                                eventSource, linger>>
    /\ UNCHANGED <<server, fetch, missing, mounted, losses>>

\* The connection breaks: what is on the way is lost, the row is fetched, and the browser
\* connects again.
Break(o) ==
    /\ eventSource[o] = "open" /\ losses < MaxLosses
    /\ losses' = losses + 1
    /\ eventSource' = [eventSource EXCEPT ![o] = "connecting"] /\ wire' = [wire EXCEPT ![o] = <<>>]
    /\ Sync(o)
    /\ UNCHANGED <<server, shown, tracking, pollTimer, missing, linger, mounted>>

-------------------------------------------------------------------------------

\* clearTrackedOperation
Clear(o) ==
    /\ linger[o]
    /\ linger' = [linger EXCEPT ![o] = FALSE]
    /\ shown' = IF shown.op = o THEN NothingShown ELSE shown
    /\ UNCHANGED <<server, tracking, fetch, pollTimer, missing, eventSource, wire, mounted,
                   losses>>

\* The page is left: a subscription stops the tracking, a timer is only cleared.
Unmount ==
    LET Subscribed == {o \in Op : eventSource[o] # "none"}
    IN /\ mounted
       /\ mounted' = FALSE /\ shown' = NothingShown
       /\ tracking' = [o \in Op |-> IF o \in Subscribed THEN "stopped" ELSE tracking[o]]
       /\ pollTimer' = [o \in Op |-> FALSE]
       /\ eventSource' = [o \in Op |-> "none"] /\ wire' = [o \in Op |-> <<>>]
       /\ UNCHANGED <<server, fetch, missing, linger, losses>>

Responds(o, k) == AnswerFetch(o, k) \/ ReceiveSnapshot(o, k)

TrackingNext ==
    \/ \E o \in Op :
          \/ Admit(o) \/ Patch(o) \/ PruneRow(o) \/ AttachTracking(o)
          \/ Poll(o) \/ StreamConnects(o) \/ ReceiveEvent(o) \/ Break(o) \/ Clear(o)
          \/ \E k \in 1..Slots : Responds(o, k) \/ FetchFails(o, k)
    \/ Unmount

TrackingSpec == TrackingInit /\ [][TrackingNext]_trackingVars

TrackingFairness ==
    \A o \in Op :
       /\ WF_trackingVars(Patch(o)) /\ WF_trackingVars(Poll(o))
       /\ WF_trackingVars(Clear(o))
       /\ \A k \in 1..Slots : WF_trackingVars(Responds(o, k))

-------------------------------------------------------------------------------

\* Every operation that is followed is let go of: no tracking goes on for ever, and no
\* button stays busy (attachOperationTracking), whatever becomes of the stream.
TrackingEnds ==
    \A o \in Op : tracking[o] \in {"first", "on"} ~> tracking[o] = "stopped" /\ shown.op # o
====================================================================================
