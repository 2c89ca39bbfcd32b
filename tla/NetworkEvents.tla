-------------------------------- MODULE NetworkEvents --------------------------------
(***************************************************************************)
(* lib/server/modules/network/events.ts with subscribeToHelperEvents: one  *)
(* bridge carries the events of the D-Bus helper to all browsers. It opens *)
(* a socket with the first subscriber, closes it with the last, and tries  *)
(* again two seconds after the socket has failed. A socket reports its     *)
(* error and its close some time after they happen, and after destroy().   *)
(***************************************************************************)
EXTENDS Naturals

CONSTANTS
    Client,
    Sockets,      \* bound: sockets not closed yet, by number
    MaxLeaves,    \* bound: how often browsers leave
    MaxHelperOutages    \* bound: how often the helper goes away

Socket == 1..Sockets

NetworkEventsAssumption ==
    Sockets \in Nat /\ MaxLeaves \in Nat /\ MaxHelperOutages \in Nat

VARIABLES
    subscribers, bridgeStarted,
    handle,         \* unsubscribeHelper: the socket it destroys, 0 for null
    reconnectTimer,
    socket,         \* each socket; failed, destroyed: its close event is to come
    helperUp,
    leaves, helperOutages

bridgeVars ==
    <<subscribers, bridgeStarted, handle, reconnectTimer, socket, helperUp, leaves, helperOutages>>

BridgeTypeOK ==
    /\ subscribers \subseteq Client /\ bridgeStarted \in BOOLEAN
    /\ handle \in Socket \cup {0} /\ reconnectTimer \in BOOLEAN
    /\ socket \in [Socket -> {"closed", "connecting", "connected", "failed", "destroyed"}]
    /\ helperUp \in BOOLEAN
    /\ leaves \in 0..MaxLeaves /\ helperOutages \in 0..MaxHelperOutages

BridgeInit ==
    /\ subscribers = {} /\ bridgeStarted = FALSE /\ handle = 0 /\ reconnectTimer = FALSE
    /\ socket = [s \in Socket |-> "closed"] /\ helperUp = TRUE
    /\ leaves = 0 /\ helperOutages = 0

-------------------------------------------------------------------------------

\* connectHelperStream, unless the bridge has a socket or is stopped.
ConnectBridge(started) ==
    IF ~started \/ handle # 0
    THEN UNCHANGED <<handle, socket>>
    ELSE \E s \in Socket :
            /\ socket[s] = "closed" /\ \A r \in 1..(s - 1) : socket[r] # "closed"
            /\ handle' = s /\ socket' = [socket EXCEPT ![s] = "connecting"]

\* subscribeToNetworkEvents
Subscribe(c) ==
    /\ c \notin subscribers
    /\ subscribers' = subscribers \cup {c}
    /\ bridgeStarted' = TRUE
    /\ IF bridgeStarted THEN UNCHANGED <<handle, socket>> ELSE ConnectBridge(TRUE)
    /\ UNCHANGED <<reconnectTimer, helperUp, leaves, helperOutages>>

\* The function that subscribeToNetworkEvents returns, and stopBridge.
Unsubscribe(c) ==
    /\ c \in subscribers /\ leaves < MaxLeaves
    /\ leaves' = leaves + 1
    /\ subscribers' = subscribers \ {c}
    /\ IF subscribers' = {}
       THEN /\ reconnectTimer' = FALSE /\ bridgeStarted' = FALSE /\ handle' = 0
            /\ socket' = [s \in Socket |-> IF s = handle THEN "destroyed" ELSE socket[s]]
       ELSE UNCHANGED <<reconnectTimer, bridgeStarted, handle, socket>>
    /\ UNCHANGED <<helperUp, helperOutages>>

\* Mutant: the handle of a socket that has failed is kept.
BadOnError(s) ==
    /\ handle' = handle
    /\ reconnectTimer' = (reconnectTimer \/ subscribers # {})

\* onError drops the handle, be it of the socket that has failed or of a later one.
OnError(s) ==
    /\ handle' = 0
    /\ reconnectTimer' = (reconnectTimer \/ subscribers # {})

\* The error of a socket that cannot connect, or breaks.
SocketFails(s) ==
    /\ socket[s] \in {"connecting", "connected"} /\ ~helperUp
    /\ socket' = [socket EXCEPT ![s] = "failed"]
    /\ OnError(s)
    /\ UNCHANGED <<subscribers, bridgeStarted, helperUp, leaves, helperOutages>>

\* The close event, which onError hears too; a helper that ends its side closes a socket
\* without an error.
SocketCloses(s) ==
    /\ \/ socket[s] \in {"failed", "destroyed"}
       \/ socket[s] = "connected" /\ ~helperUp
    /\ socket' = [socket EXCEPT ![s] = "closed"]
    /\ OnError(s)
    /\ UNCHANGED <<subscribers, bridgeStarted, helperUp, leaves, helperOutages>>

SocketOpens(s) ==
    /\ socket[s] = "connecting" /\ helperUp
    /\ socket' = [socket EXCEPT ![s] = "connected"]
    /\ UNCHANGED <<subscribers, bridgeStarted, handle, reconnectTimer, helperUp, leaves,
                   helperOutages>>

\* The timer of scheduleReconnect.
Reconnect ==
    /\ reconnectTimer
    /\ reconnectTimer' = FALSE
    /\ ConnectBridge(bridgeStarted)
    /\ UNCHANGED <<subscribers, bridgeStarted, helperUp, leaves, helperOutages>>

HelperStops ==
    /\ helperUp /\ helperOutages < MaxHelperOutages
    /\ helperUp' = FALSE /\ helperOutages' = helperOutages + 1
    /\ UNCHANGED <<subscribers, bridgeStarted, handle, reconnectTimer, socket, leaves>>

HelperStarts ==
    /\ ~helperUp /\ helperUp' = TRUE
    /\ UNCHANGED <<subscribers, bridgeStarted, handle, reconnectTimer, socket, leaves,
                   helperOutages>>

BridgeNext ==
    \/ \E c \in Client : Subscribe(c) \/ Unsubscribe(c)
    \/ \E s \in Socket : SocketFails(s) \/ SocketCloses(s) \/ SocketOpens(s)
    \/ Reconnect \/ HelperStops \/ HelperStarts

BridgeSpec == BridgeInit /\ [][BridgeNext]_bridgeVars

BridgeFairness ==
    /\ WF_bridgeVars(Reconnect)
    /\ WF_bridgeVars(\E s \in Socket : SocketFails(s) \/ SocketCloses(s) \/ SocketOpens(s))

-------------------------------------------------------------------------------

\* Somebody who stays subscribed is heard again when the helper is there (events.ts),
\* whatever late errors and closes of earlier sockets have done.
EventsComeBack ==
    \A c \in Client :
       <>[](c \in subscribers /\ helperUp) => <>[](\E s \in Socket : socket[s] = "connected")
======================================================================================
