-------------------------------- MODULE MCDesktop --------------------------------
(***************************************************************************)
(* What the browser does by itself, and what the server remembers or holds *)
(* open for browsers. The components share no state and are checked by one *)
(* run: which of them a behaviour exercises is chosen at its start.        *)
(***************************************************************************)
EXTENDS MemoizeAsync, SystemUpdate, FirstAccount, CatalogSnapshots, TerminalSessions,
        OperationTracking, NetworkEvents, ServerRecovery, DesktopWindows, WallpaperFade, TLC

CONSTANTS
    r1, r2,                      \* connections
    p1, p2, p3                   \* users, clients, windows, wallpapers

VARIABLE part

\* Both connections are of one user. An official source is synchronised twice, another once.
OneUser  == (r1 :> p1) @@ (r2 :> p1)
SyncedAt == [o \in BOOLEAN |-> IF o THEN 2 ELSE 1]

ASSUME DesktopAssumption ==
    /\ OperationTrackingAssumption /\ TerminalSessionsAssumption
    /\ NetworkEventsAssumption /\ CatalogSnapshotsAssumption
    /\ SystemUpdateAssumption /\ FirstAccountAssumption
    /\ ServerRecoveryAssumption /\ DesktopWindowsAssumption
    /\ WallpaperAssumption

-------------------------------------------------------------------------------

allVars == <<part, vars, trackingVars, terminalVars, bridgeVars, snapshotVars, updateVars,
             accountVars, desktopVars, windowVars, wallpaperVars>>

DesktopInit ==
    /\ part \in {"cache", "two operations", "one operation", "terminal", "network", "catalog",
                 "release", "proxy", "shell", "windows", "wallpaper"}
    /\ Init /\ TrackingInit /\ TerminalInit /\ BridgeInit /\ UpdateInit
    /\ RecoveryInit
    /\ SnapshotInit /\ (part # "catalog" => official)
    /\ AccountInit   /\ (part # "proxy" => accounts = {})
    /\ WindowsInit /\ (part # "windows" => animations)
    /\ WallpaperInit /\ (part # "wallpaper" => animated /\ wallpaper = p1)

\* One operation with two fetches under way and every loss, or two with one fetch each.
TrackingOnly ==
    /\ part \in {"one operation", "two operations"} /\ TrackingNext
    /\ \/ part = "one operation" /\ server'[2] = "unborn"
       \/ /\ part = "two operations" /\ losses' = 0 /\ mounted'
          /\ \A o \in {1, 2} : fetch'[o][2] = "free" /\ server'[o] # "pruned"

Only(name, next) == part = name /\ next /\ part' = part

DesktopNext ==
    \/ /\ Only("cache", Next)
       /\ UNCHANGED <<trackingVars, terminalVars, bridgeVars, snapshotVars, updateVars, accountVars,
                      desktopVars, windowVars, wallpaperVars>>
    \/ /\ TrackingOnly
       /\ UNCHANGED <<part, vars, terminalVars, bridgeVars, snapshotVars, updateVars, accountVars,
                      desktopVars, windowVars, wallpaperVars>>
    \/ /\ Only("terminal", TerminalNext)
       /\ UNCHANGED <<vars, trackingVars, bridgeVars, snapshotVars, updateVars, accountVars,
                      desktopVars, windowVars, wallpaperVars>>
    \/ /\ Only("network", BridgeNext)
       /\ UNCHANGED <<vars, trackingVars, terminalVars, snapshotVars, updateVars, accountVars,
                      desktopVars, windowVars, wallpaperVars>>
    \/ /\ Only("catalog", SnapshotNext)
       /\ UNCHANGED <<vars, trackingVars, terminalVars, bridgeVars, updateVars, accountVars,
                      desktopVars, windowVars, wallpaperVars>>
    \/ /\ Only("release", UpdateNext)
       /\ UNCHANGED <<vars, trackingVars, terminalVars, bridgeVars, snapshotVars, accountVars,
                      desktopVars, windowVars, wallpaperVars>>
    \/ /\ Only("proxy", AccountNext)
       /\ UNCHANGED <<vars, trackingVars, terminalVars, bridgeVars, snapshotVars, updateVars,
                      desktopVars, windowVars, wallpaperVars>>
    \/ /\ Only("shell", RecoveryNext)
       /\ UNCHANGED <<vars, trackingVars, terminalVars, bridgeVars, snapshotVars, updateVars,
                      accountVars, windowVars, wallpaperVars>>
    \/ /\ Only("windows", WindowsNext)
       /\ UNCHANGED <<vars, trackingVars, terminalVars, bridgeVars, snapshotVars, updateVars,
                      accountVars, desktopVars, wallpaperVars>>
    \/ /\ Only("wallpaper", WallpaperNext)
       /\ UNCHANGED <<vars, trackingVars, terminalVars, bridgeVars, snapshotVars, updateVars,
                      accountVars, desktopVars, windowVars>>

\* What is under way goes on; nothing forces a user, a fault or the server's absence.
DesktopSpec ==
    /\ DesktopInit /\ [][DesktopNext]_allVars
    /\ TrackingFairness /\ BridgeFairness /\ RecoveryFairness
    /\ WindowsFairness
    /\ WF_wallpaperVars(part = "wallpaper" /\ WallpaperSteps)

-------------------------------------------------------------------------------

\* The component that a behaviour exercises stays in its types.
TypesOK ==
    CASE part = "cache"     -> TypeOK
      [] part \in {"one operation", "two operations"} -> TrackingTypeOK
      [] part = "terminal"  -> TerminalTypeOK
      [] part = "network"   -> BridgeTypeOK
      [] part = "catalog"   -> SnapshotTypeOK
      [] part = "release"   -> UpdateTypeOK
      [] part = "proxy"     -> AccountTypeOK
      [] part = "shell"     -> RecoveryTypeOK
      [] part = "windows"   -> WindowsTypeOK
      [] part = "wallpaper" -> WallpaperTypeOK

\* Windows and wallpaper end up as they were last asked for (desktop-shell.tsx).
DesktopAsAsked ==
    /\ WindowsAsAsked
    /\ part = "wallpaper" => WallpaperArrives
=============================================================================
