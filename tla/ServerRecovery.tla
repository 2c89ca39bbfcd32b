------------------------------- MODULE ServerRecovery -------------------------------
(***************************************************************************)
(* One desktop while its server goes away and comes back:                  *)
(* useServerConnection, which follows a server that has stopped answering, *)
(* useRebootRecovery, which follows a reboot, update, restore or reset, and *)
(* the stream of metrics that tells the first one to look (useSystemSse).   *)
(* An effect of React runs in the step that causes it.                     *)
(***************************************************************************)
EXTENDS Naturals

CONSTANTS
    Unseen,
    MaxOutages,     \* bound: times the server goes away
    MaxActions,     \* bound: power actions begun, here or by another session
    MaxStrays       \* bound: events nothing needs: other tabs' storage, clicks, 500s, 401s

ServerRecoveryAssumption ==
    MaxOutages \in Nat /\ MaxActions \in Nat /\ MaxStrays \in Nat /\ Unseen \notin Nat

VARIABLES
    up,          \* the server answers
    process,     \* which process of the server does, or did last
    tab,         \* what the tab shows: the desktop, or the "error" of a page that did not load
    stream,      \* the EventSource: "open", "retrying", or "off" during a power action
    metrics,     \* the process named by the last snapshot of metrics
    phase,       \* phaseRef: "online", "lost" or "restored"
    probing,     \* probingRef
    probe,       \* the request a probe waits for; "none" is inFlightRef = false
    retry,       \* timerRef: a probe, the way back to the desktop, or a reload
    before,      \* identityBeforeRef
    action,      \* powerActionState, as persisted
    loop,        \* checkRecovery: what it waits for, "off" without a power action
    observed,    \* hasObservedUnavailable
    elapsed,     \* MIN_RESTART_TRANSITION_MS has passed
    stale,       \* a cancelled loop still waits for /api/auth/me
    finishing,   \* clearState, after an update, waits for the queries
    outages, actions, strays,
    crossed,     \* history: a power action began while a probe was recovering
    reloads      \* history: reloads by which the recovery of an update ended

connectionVars == <<phase, probing, probe, retry, before>>
recoveryVars   == <<action, loop, observed, elapsed, stale, finishing>>
historyVars    == <<crossed, reloads>>
bounds         == <<outages, actions, strays>>
desktopVars    == <<up, process, tab, stream, metrics, connectionVars, recoveryVars, bounds, historyVars>>

RecoveryTypeOK ==
    /\ up \in BOOLEAN /\ process \in 0..MaxOutages /\ tab \in {"desktop", "error"}
    /\ stream \in {"open", "retrying", "off"} /\ metrics \in 0..MaxOutages \cup {Unseen}
    /\ phase \in {"online", "lost", "restored"} /\ probing \in BOOLEAN
    /\ probe \in {"none", "health", "auth", "metrics", "signed out"}
    /\ retry \in {"none", "probe", "back", "reload"}
    /\ before \in 0..MaxOutages \cup {Unseen}
    /\ action \in {"none", "update", "other"}
    /\ loop \in {"off", "timer", "health", "auth"}
    /\ observed \in BOOLEAN /\ elapsed \in BOOLEAN /\ stale \in BOOLEAN /\ finishing \in BOOLEAN
    /\ outages \in 0..MaxOutages /\ actions \in 0..MaxActions /\ strays \in 0..MaxStrays
    /\ crossed \in BOOLEAN /\ reloads \in 0..MaxActions

RecoveryInit ==
    /\ up = TRUE /\ process = 0 /\ tab = "desktop" /\ stream = "open" /\ metrics = 0
    /\ phase = "online" /\ probing = FALSE /\ probe = "none" /\ retry = "none" /\ before = Unseen
    /\ action = "none" /\ loop = "off" /\ observed = FALSE /\ elapsed = FALSE
    /\ stale = FALSE /\ finishing = FALSE
    /\ outages = 0 /\ actions = 0 /\ strays = 0
    /\ crossed = FALSE /\ reloads = 0

enabled == action = "none"
Shown   == tab = "desktop"      \* and whatever runs on it

-------------------------------------------------------------------------------
(* useServerConnection *)

\* reset
Reset == phase' = "online" /\ probing' = FALSE /\ retry' = "none"

\* probe, up to its first request
Probe ==
    IF probe # "none" THEN UNCHANGED <<probing, retry, probe>>
    ELSE /\ retry' = "none"
         /\ IF enabled /\ phase # "restored"
            THEN probing' = TRUE /\ probe' = "health"
            ELSE UNCHANGED <<probing, probe>>

StartProbing == IF probing THEN UNCHANGED <<probing, retry, probe>> ELSE Probe

ProbeIfLost == IF phase = "lost" THEN Probe ELSE UNCHANGED <<probing, retry, probe>>

Healthy ==
    /\ probe' = "none"
    /\ IF enabled /\ phase = "online" THEN Reset ELSE UNCHANGED <<phase, probing, retry>>
    /\ UNCHANGED before

\* Mutant: a recovery that fails is given up.
BadUnhealthy ==
    /\ probe' = "none"
    /\ IF enabled /\ probe = "health"
       THEN /\ phase' = IF phase = "online" THEN "lost" ELSE phase
            /\ before' = IF phase = "online" THEN metrics ELSE before
            /\ retry' = "probe"
       ELSE UNCHANGED <<phase, before, retry>>
    /\ UNCHANGED probing

Unhealthy ==
    /\ probe' = "none"
    /\ IF enabled
       THEN /\ phase' = IF phase = "online" THEN "lost" ELSE phase
            /\ before' = IF phase = "online" THEN metrics ELSE before
            /\ retry' = "probe"
       ELSE UNCHANGED <<phase, before, retry>>
    /\ UNCHANGED probing

ConnectionStep ==
    UNCHANGED <<up, process, tab, stream, metrics, recoveryVars, outages, actions, historyVars>>

\* isHealthy; a server that was lost is then asked who is signed in.
HealthAnswers ==
    /\ probe = "health"
    /\ IF ~up THEN Unhealthy
       ELSE IF phase = "lost" /\ enabled
            THEN probe' = "auth" /\ UNCHANGED <<phase, probing, retry, before>>
            ELSE Healthy
    /\ ConnectionStep /\ UNCHANGED strays

AuthAnswers ==
    /\ probe = "auth"
    /\ \/ ~up /\ Unhealthy /\ UNCHANGED strays
       \/ up /\ probe' = "metrics" /\ UNCHANGED <<phase, probing, retry, before, strays>>
       \/ /\ up /\ strays < MaxStrays /\ strays' = strays + 1
          /\ \/ probe' = "signed out" /\ UNCHANGED <<phase, probing, retry, before>>
             \/ Unhealthy
    /\ ConnectionStep

\* recover: the way back, by a reload if it may be another server or another session.
Recover ==
    /\ probe \in {"metrics", "signed out"} /\ probe' = "none"
    /\ phase' = "restored"
    /\ retry' = IF up /\ probe = "metrics" /\ before = process THEN "back" ELSE "reload"
    /\ UNCHANGED <<probing, before, strays>> /\ ConnectionStep

ProbeAgain ==
    /\ retry = "probe"
    /\ IF probe # "none" THEN retry' = "none" /\ UNCHANGED <<probing, probe>> ELSE Probe
    /\ UNCHANGED <<phase, before, strays>> /\ ConnectionStep

GoBack == retry = "back" /\ Reset /\ UNCHANGED <<probe, before, strays>> /\ ConnectionStep

\* checkNow
CheckNow ==
    /\ phase = "lost" /\ strays < MaxStrays /\ strays' = strays + 1
    /\ Probe /\ UNCHANGED <<phase, before>> /\ ConnectionStep

-------------------------------------------------------------------------------
(* useSystemSse *)

StreamStep ==
    UNCHANGED <<up, process, tab, phase, before, recoveryVars, bounds, historyVars>>

\* Every failed attempt is an error event.
StreamFails ==
    /\ ~up /\ stream # "off" /\ stream' = "retrying"
    /\ StartProbing /\ UNCHANGED metrics /\ StreamStep

StreamOpens ==
    /\ up /\ stream = "retrying" /\ stream' = "open"
    /\ ProbeIfLost /\ UNCHANGED metrics /\ StreamStep

Measure ==
    /\ up /\ stream = "open" /\ metrics' = process
    /\ UNCHANGED <<stream, probing, retry, probe>> /\ StreamStep

-------------------------------------------------------------------------------
(* useRebootRecovery *)

\* The effect starts over, with a new state of its own; what it awaits it cannot cancel.
Restarted ==
    /\ loop' = "health" /\ observed' = FALSE
    /\ stale' = (stale \/ loop = "auth")

\* A power action is begun here, or heard of: the stream is closed, and the other screen
\* goes.
BeginAction(what) ==
    /\ action = "none" /\ actions < MaxActions /\ actions' = actions + 1
    /\ action' = what /\ elapsed' = FALSE /\ Restarted
    /\ stream' = "off" /\ Reset
    /\ crossed' = (crossed \/ probe \in {"auth", "metrics", "signed out"})
    /\ UNCHANGED <<up, process, tab, metrics, probe, before, finishing, outages, strays, reloads>>

RecoveryStep == UNCHANGED <<up, process, tab, connectionVars, metrics, outages, actions, crossed>>

\* No power action is persisted any more: the loop ends, and the stream is opened again.
Cleared ==
    /\ action' = "none" /\ loop' = "off" /\ stream' = "retrying"
    /\ UNCHANGED <<observed, elapsed>>

\* Another tab has ended the recovery, and cleared what is persisted; any other storage
\* event makes a new state of it.
OtherTab ==
    /\ action # "none" /\ strays < MaxStrays /\ strays' = strays + 1
    /\ \/ Cleared /\ stale' = (stale \/ loop = "auth")
       \/ Restarted /\ UNCHANGED <<action, elapsed, stream>>
    /\ UNCHANGED <<finishing, reloads>> /\ RecoveryStep

LoopChecks ==
    /\ loop = "timer" /\ loop' = "health"
    /\ UNCHANGED <<action, observed, elapsed, stale, finishing, stream, strays, reloads>>
    /\ RecoveryStep

TimePasses ==
    /\ action # "none" /\ ~elapsed /\ elapsed' = TRUE
    /\ UNCHANGED <<action, loop, observed, stale, finishing, stream, strays, reloads>>
    /\ RecoveryStep

LoopHealth ==
    /\ loop = "health"
    /\ IF up THEN loop' = (IF observed \/ elapsed THEN "auth" ELSE "timer") /\ UNCHANGED observed
             ELSE loop' = "timer" /\ observed' = TRUE
    /\ UNCHANGED <<action, elapsed, stale, finishing, stream, strays, reloads>>
    /\ RecoveryStep

\* clearState: the event of clearing cancels the loop itself once React has rendered, before
\* or after the queries that clearState awaits.
LoopAuth ==
    /\ loop = "auth"
    /\ \/ /\ up /\ Cleared
          /\ finishing' = (finishing \/ action = "update")
          /\ UNCHANGED strays
       \/ /\ up /\ strays < MaxStrays /\ strays' = strays + 1
          /\ \/ Cleared
             \/ loop' = "timer" /\ UNCHANGED <<action, observed, elapsed, stream>>
          /\ UNCHANGED finishing
       \/ /\ ~up /\ loop' = "timer" /\ observed' = TRUE
          /\ UNCHANGED <<action, elapsed, finishing, stream, strays>>
    /\ UNCHANGED <<stale, reloads>> /\ RecoveryStep

\* A cancelled loop clears what is persisted then.
StaleAuth ==
    /\ stale /\ stale' = FALSE
    /\ \/ up /\ action # "none" /\ Cleared
       \/ (~up \/ action = "none") /\ UNCHANGED <<action, loop, stream, observed, elapsed>>
    /\ UNCHANGED <<finishing, strays, reloads>> /\ RecoveryStep

NoReload ==
    /\ finishing /\ finishing' = FALSE
    /\ UNCHANGED <<action, loop, observed, elapsed, stale, stream, strays, reloads>>
    /\ RecoveryStep

\* The page is loaded again, whether the server can be reached or not: no service worker
\* keeps a copy. Nothing runs on the page of the error; a reload by hand is left out.
Reload ==
    /\ finishing \/ retry = "reload"
    /\ tab' = IF up THEN "desktop" ELSE "error"
    /\ reloads' = IF finishing THEN reloads + 1 ELSE reloads
    /\ finishing' = FALSE /\ stale' = FALSE /\ observed' = FALSE
    /\ Reset /\ probe' = "none" /\ before' = Unseen /\ metrics' = Unseen
    /\ IF action = "none" THEN stream' = "retrying" /\ loop' = "off"
                          ELSE stream' = "off" /\ loop' = "health"
    /\ UNCHANGED <<up, process, action, elapsed, bounds, crossed>>

-------------------------------------------------------------------------------
(* The server, and the network before it. *)

\* The browser may tell of a network that is gone.
GoAway ==
    /\ up /\ up' = FALSE /\ outages < MaxOutages /\ outages' = outages + 1
    /\ (Shown /\ enabled /\ StartProbing) \/ UNCHANGED <<probing, retry, probe>>
    /\ UNCHANGED <<process, tab, stream, metrics, phase, before, recoveryVars, actions, strays, historyVars>>

\* It is the same process if only the network was gone.
ComeBack ==
    /\ ~up /\ up' = TRUE
    /\ \/ process' = outages /\ UNCHANGED <<probing, retry, probe>>
       \/ UNCHANGED process /\ Shown /\ enabled /\ ProbeIfLost
       \/ UNCHANGED <<process, probing, retry, probe>>
    /\ UNCHANGED <<tab, stream, metrics, phase, before, recoveryVars, bounds, historyVars>>

ProbeSteps  == Shown /\ (HealthAnswers \/ AuthAnswers \/ Recover \/ ProbeAgain \/ GoBack)
StreamSteps == Shown /\ (StreamFails \/ StreamOpens)
LoopSteps   == Shown /\ (LoopChecks \/ LoopHealth \/ LoopAuth \/ StaleAuth)
FinishSteps == Shown /\ (NoReload \/ Reload)
TimerSteps  == Shown /\ TimePasses
StraySteps  == /\ Shown
               /\ \/ CheckNow \/ Measure \/ OtherTab
                  \/ \E what \in {"update", "other"} : BeginAction(what)

RecoveryNext ==
    ProbeSteps \/ StreamSteps \/ LoopSteps \/ FinishSteps \/ TimerSteps \/ StraySteps \/ GoAway \/ ComeBack

RecoverySpec == RecoveryInit /\ [][RecoveryNext]_desktopVars

\* Timers fire, requests end, the browser retries the stream, and the server comes back.
RecoveryFairness ==
    /\ WF_desktopVars(ProbeSteps) /\ WF_desktopVars(StreamSteps)
    /\ WF_desktopVars(LoopSteps) /\ WF_desktopVars(TimerSteps)
    /\ WF_desktopVars(FinishSteps) /\ WF_desktopVars(ComeBack)

-------------------------------------------------------------------------------

\* Once the server is back for good so is the desktop, whatever it was doing when the server
\* went away (recover, checkRecovery). The exceptions: a power action began amid a recovery;
\* or the server went away again between the answers that ended a recovery and the reload
\* they led to, which leaves the error of the browser.
DesktopComesBack == <>(crossed \/ tab = "error" \/ [](phase = "online" /\ action = "none"))

\* The recovery of an update ends with a reload of the page (clearState).
UpdateReloads == [][finishing /\ ~finishing' => reloads' = reloads + 1]_desktopVars
====================================================================================
