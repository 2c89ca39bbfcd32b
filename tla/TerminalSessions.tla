------------------------------ MODULE TerminalSessions ------------------------------
(***************************************************************************)
(* lib/server/modules/terminal/websocket-server.ts: each WebSocket of a    *)
(* user has a shell of its own, on the host or in a container it asked     *)
(* for; the number of them is limited per user. A process that is killed,  *)
(* or ends by itself, is heard of later, when its connection may have gone *)
(* or be attached to another process.                                      *)
(***************************************************************************)
EXTENDS Naturals, FiniteSets

CONSTANTS
    Connection,            \* bound: each WebSocket is opened once
    Processes,             \* bound: shells spawned
    OwnerOf,               \* [Connection -> user]
    Container, Host, NoContainer,
    MaxSessions            \* TERMINAL_MAX_SESSIONS_PER_USER

Process == 1..Processes

TerminalSessionsAssumption ==
    /\ Processes \in Nat /\ MaxSessions \in Nat \ {0} /\ DOMAIN OwnerOf = Connection
    /\ Host \notin Container /\ NoContainer \notin Container \cup {Host}

VARIABLES
    ws,          \* each WebSocket: closing after ws.close(), until its close event
    active,      \* activeTerminalSessionIdsByUser, as the set of its connections
    ptyProcess,  \* of each connection, 0 for null
    target,      \* targetContainer
    life,        \* of each process: one that was killed has not reported its exit yet
    shell        \* where it runs, whether it is the first try with bash, who listens to it

terminalVars == <<ws, active, ptyProcess, target, life, shell>>

NoShell == [place |-> NoContainer, bash |-> FALSE, of |-> NoContainer]

TerminalTypeOK ==
    /\ ws \in [Connection -> {"idle", "open", "closing", "closed"}]
    /\ active \subseteq Connection
    /\ ptyProcess \in [Connection -> Process \cup {0}]
    /\ target \in [Connection -> Container \cup {NoContainer}]
    /\ life \in [Process -> {"unborn", "running", "killed", "over"}]
    /\ \A p \in Process :
          IF life[p] \in {"unborn", "over"} THEN shell[p] = NoShell
          ELSE shell[p] \in [place : Container \cup {Host}, bash : BOOLEAN, of : Connection]

TerminalInit ==
    /\ ws = [c \in Connection |-> "idle"] /\ active = {}
    /\ ptyProcess = [c \in Connection |-> 0] /\ target = [c \in Connection |-> NoContainer]
    /\ life = [p \in Process |-> "unborn"] /\ shell = [p \in Process |-> NoShell]

OfUser(c) == {d \in active : OwnerOf[d] = OwnerOf[c]}

-------------------------------------------------------------------------------
(* pty.spawn and attachPty. What is left of the other processes is lives and shells; *)
(* held is what the connection is attached to if nothing can be spawned. *)

Spawn(c, place, bash, lives, shells) ==
    \E p \in Process :
       /\ \A q \in Process : lives[q] = "unborn" <=> q >= p
       /\ life' = [lives EXCEPT ![p] = "running"]
       /\ shell' = [shells EXCEPT ![p] = [place |-> place, bash |-> bash, of |-> c]]
       /\ ptyProcess' = [ptyProcess EXCEPT ![c] = p]

\* createHostPty, which closes the connection when even that fails.
HostShell(c, lives, shells, held) ==
    /\ target' = [target EXCEPT ![c] = NoContainer]
    /\ \/ Spawn(c, Host, FALSE, lives, shells) /\ ws' = ws
       \/ /\ ws' = [ws EXCEPT ![c] = "closing"]
          /\ life' = lives /\ shell' = shells
          /\ ptyProcess' = [ptyProcess EXCEPT ![c] = held]

\* createDockerPty, which falls back to the host.
DockerShell(c, place, bash, lives, shells, held) ==
    \/ /\ Spawn(c, place, bash, lives, shells)
       /\ target' = [target EXCEPT ![c] = place] /\ ws' = ws
    \/ HostShell(c, lives, shells, held)

\* killPty; the process reports its exit later.
Killed(c) ==
    [p \in Process |-> IF p = ptyProcess[c] /\ life[p] = "running" THEN "killed" ELSE life[p]]

\* Mutant: an exit is heeded whatever the connection is attached to.
BadHeeds(c, p) == TRUE

\* The exit of a process means something to the connection that is attached to it.
Heeds(c, p) == ptyProcess[c] = p

-------------------------------------------------------------------------------

\* The connection handler: a refused connection is closed and has nothing to clean up.
Connect(c) ==
    /\ ws[c] = "idle" /\ UNCHANGED target
    /\ IF Cardinality(OfUser(c)) >= MaxSessions
       THEN /\ ws' = [ws EXCEPT ![c] = "closed"]
            /\ UNCHANGED <<active, ptyProcess, life, shell>>
       ELSE /\ active' = active \cup {c}
            /\ \/ Spawn(c, Host, FALSE, life, shell) /\ ws' = [ws EXCEPT ![c] = "open"]
               \/ ws' = [ws EXCEPT ![c] = "closing"] /\ UNCHANGED <<ptyProcess, life, shell>>

\* A message "attach"; messages still come in after ws.close().
Attach(c) ==
    /\ ws[c] \in {"open", "closing"}
    /\ \E place \in Container : DockerShell(c, place, TRUE, Killed(c), shell, 0)
    /\ UNCHANGED active

\* The idle timer or the lifetime timer asks the connection to close.
TimesOut(c) ==
    /\ ws[c] = "open"
    /\ ws' = [ws EXCEPT ![c] = "closing"]
    /\ UNCHANGED <<active, ptyProcess, target, life, shell>>

\* The listener hears that a process has ended. A shell of the host closes the connection;
\* a container that does not have bash is tried with sh; otherwise the host takes over.
Exit(p) ==
    LET c == shell[p].of
        lives == [life EXCEPT ![p] = "over"]
        shells == [shell EXCEPT ![p] = NoShell]
    IN /\ life[p] \in {"running", "killed"}
       /\ IF ~Heeds(c, p) \/ ws[c] = "closed" \/ shell[p].place = Host
          THEN /\ life' = lives /\ shell' = shells
               /\ ws' = [ws EXCEPT ![c] = IF Heeds(c, p) /\ @ # "closed" THEN "closing" ELSE @]
               /\ UNCHANGED <<ptyProcess, target>>
          ELSE \/ /\ shell[p].bash /\ target[c] # NoContainer
                  /\ DockerShell(c, target[c], FALSE, lives, shells, p)
               \/ HostShell(c, lives, shells, p)
       /\ UNCHANGED active

\* The close event, or an error: cleanup.
Close(c) ==
    /\ ws[c] \in {"open", "closing"}
    /\ ws' = [ws EXCEPT ![c] = "closed"]
    /\ life' = Killed(c) /\ ptyProcess' = [ptyProcess EXCEPT ![c] = 0]
    /\ active' = active \ {c}
    /\ UNCHANGED <<target, shell>>

TerminalNext ==
    \/ \E c \in Connection : Connect(c) \/ Attach(c) \/ TimesOut(c) \/ Close(c)
    \/ \E p \in Process : Exit(p)

TerminalSpec == TerminalInit /\ [][TerminalNext]_terminalVars

-------------------------------------------------------------------------------

\* A process runs only as long as an open connection is attached to it, in the place that
\* connection asked for last, and no user has more of them than allowed.
ShellsHaveOwners ==
    /\ \A p \in Process : life[p] = "running" =>
          LET c == shell[p].of
          IN /\ c \in active /\ ptyProcess[c] = p
             /\ shell[p].place = IF target[c] = NoContainer THEN Host ELSE target[c]
    /\ \A c \in Connection : Cardinality(OfUser(c)) <= MaxSessions
=====================================================================================
