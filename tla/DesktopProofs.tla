------------------------------ MODULE DesktopProofs ------------------------------
(***************************************************************************)
(* What browsers do and are served: accounts and terminals, for any number *)
(* of visitors, connections and processes, the following of operations, the*)
(* network event bridge, the recovery of the server, windows and wallpaper.*)
(* Of those that must go on to an end the theorems show the half that is   *)
(* an invariant: whatever waits has something under way that wakes it.     *)
(***************************************************************************)
EXTENDS MCDesktop, CacheProofs, FiniteSetTheorems, SequenceTheorems, TLAPS

-------------------------------------------------------------------------------
(* FirstAccount. *)

\* Who has to know that there is an account does: what has been counted or remembered
\* agrees with it, and only one lookup is under way.
LookupInv ==
    /\ \A v \in Visitor : lookup[v] # "none" => looking = v
    /\ taken \/ cache = "yes" => accounts # {} /\ \A v \in Visitor : lookup[v] # "no"
    /\ taken => cache # "no"
    /\ \A v \in Visitor : lookup[v] = "yes" => accounts # {}

AccountInv == AccountTypeOK /\ LookupInv

\* Whom a step sends to registration anew.
SentToRegister == \E v \in Visitor : page'[v] = "register" /\ page[v] # "register"

LEMMA AccountInitInv == FirstAccountAssumption /\ AccountInit => AccountInv
<1> SUFFICES ASSUME FirstAccountAssumption, AccountInit PROVE AccountInv
  OBVIOUS
<1>1. AccountTypeOK
  <2>1. lapses \in 0..MaxLapses /\ hiccups \in 0..MaxHiccups
    BY DEF AccountInit, FirstAccountAssumption
  <2>2. QED
    BY <2>1 DEF AccountInit, AccountTypeOK
<1>2. LookupInv
  BY DEF AccountInit, LookupInv
<1>3. QED
  BY <1>1, <1>2 DEF AccountInv

\* What an answer to some visitors changes stays in its type.
LEMMA SendTypes ==
    ASSUME AccountTypeOK, NEW who, NEW hasUsers \in BOOLEAN, Send(who, hasUsers)
    PROVE  /\ page' \in [Visitor -> {"none", "login", "register", "desktop", "refused"}]
           /\ session' \in [Visitor -> BOOLEAN]
<1>1. session' = [v \in Visitor |-> session[v] /\ (v \in who => hasUsers)]
  BY DEF Send
<1>2. \A v \in Visitor : (session[v] /\ (v \in who => hasUsers)) \in BOOLEAN
  OBVIOUS
<1>3. session' \in [Visitor -> BOOLEAN]
  BY <1>1, <1>2
<1>4. page \in [Visitor -> {"none", "login", "register", "desktop", "refused"}]
  BY DEF AccountTypeOK
<1>5. page' \in [Visitor -> {"none", "login", "register", "desktop", "refused"}]
  BY <1>4 DEF Send
<1>6. QED
  BY <1>3, <1>5

LEMMA AccountTypeStep ==
    ASSUME FirstAccountAssumption, AccountTypeOK, [AccountNext]_accountVars
    PROVE  AccountTypeOK'
<1> USE DEF AccountTypeOK, FirstAccountAssumption, proxyVars
<1>1. ASSUME NEW v \in Visitor, AskToRegister(v) PROVE AccountTypeOK'
  BY <1>1 DEF AskToRegister
<1>2. ASSUME NEW v \in Visitor, CreateUser(v) PROVE AccountTypeOK'
  BY <1>2 DEF CreateUser
<1>3. ASSUME NEW v \in Visitor, Login(v) \/ Logout(v) PROVE AccountTypeOK'
  BY <1>3 DEF Login, Logout
<1>4. ASSUME NEW v \in Visitor, Refuse(v) PROVE AccountTypeOK'
  BY <1>4 DEF Refuse
<1>5. ASSUME NEW v \in Visitor, UseCached(v) PROVE AccountTypeOK'
  <2>1. (cache = "yes") \in BOOLEAN /\ Send({v}, cache = "yes")
    BY <1>5 DEF UseCached
  <2>2. QED
    BY <1>5, <2>1, SendTypes DEF UseCached
<1>6. ASSUME NEW v \in Visitor, LookUp(v) PROVE AccountTypeOK'
  BY <1>6 DEF LookUp
<1>7. ASSUME NEW v \in Visitor, Count(v) PROVE AccountTypeOK'
  BY <1>7 DEF Count
<1>8. ASSUME NEW v \in Visitor, LookedUp(v) PROVE AccountTypeOK'
  <2>1. (lookup[v] = "yes") \in BOOLEAN /\ Send(Waiting(v), lookup[v] = "yes")
    BY <1>8 DEF LookedUp, SettleLookup
  <2>2. QED
    BY <1>8, <2>1, SendTypes DEF LookedUp, SettleLookup
<1>9. ASSUME NEW v \in Visitor, LookupFails(v) PROVE AccountTypeOK'
  <2>1. Otherwise \in BOOLEAN /\ Send(Waiting(v), Otherwise)
    BY <1>9 DEF LookupFails, SettleLookup, Otherwise
  <2>2. QED
    BY <1>9, <2>1, SendTypes DEF LookupFails, SettleLookup
<1>10. CASE Lapse
  <2>1. lapses' \in 0..MaxLapses
    BY <1>10 DEF Lapse
  <2>2. QED
    BY <1>10, <2>1 DEF Lapse
<1>11. CASE ProxyRestart
  <2>1. hiccups' \in 0..MaxHiccups
    BY <1>11 DEF ProxyRestart
  <2>2. QED
    BY <1>11, <2>1 DEF ProxyRestart
<1>12. CASE UNCHANGED accountVars
  BY <1>12 DEF accountVars
<1>13. QED
  BY <1>1, <1>2, <1>3, <1>4, <1>5, <1>6, <1>7, <1>8, <1>9, <1>10, <1>11, <1>12 DEF AccountNext

LEMMA AccountStep ==
    ASSUME FirstAccountAssumption, AccountInv, [AccountNext]_accountVars
    PROVE  AccountInv' /\ (taken \/ cache = "yes" => ~SentToRegister)
<1>0. AccountTypeOK'
  BY AccountTypeStep DEF AccountInv
<1> SUFFICES LookupInv' /\ (taken \/ cache = "yes" => ~SentToRegister)
  BY <1>0 DEF AccountInv
<1>t. /\ lookup \in [Visitor -> {"none", "asked", "yes", "no"}]
      /\ page \in [Visitor -> {"none", "login", "register", "desktop", "refused"}]
      /\ cache \in {"none", "yes", "no"} /\ Nobody \notin Visitor
  BY DEF AccountInv, AccountTypeOK, FirstAccountAssumption
<1> USE <1>t DEF AccountInv, LookupInv, SentToRegister, proxyVars
<1>1. ASSUME NEW v \in Visitor, AskToRegister(v) \/ CreateUser(v) \/ Login(v) \/ Logout(v)
      PROVE  LookupInv' /\ ~SentToRegister
  BY <1>1 DEF AskToRegister, CreateUser, Login, Logout
<1>2. ASSUME NEW v \in Visitor, Refuse(v) PROVE LookupInv' /\ ~SentToRegister
  BY <1>2 DEF Refuse
<1>3. ASSUME NEW v \in Visitor, UseCached(v)
      PROVE  LookupInv' /\ (taken \/ cache = "yes" => ~SentToRegister)
  BY <1>3 DEF UseCached, Send
<1>4. ASSUME NEW v \in Visitor, LookUp(v) PROVE LookupInv' /\ ~SentToRegister
  BY <1>4 DEF LookUp
<1>5. ASSUME NEW v \in Visitor, Count(v) PROVE LookupInv' /\ ~SentToRegister
  BY <1>5 DEF Count
<1>6. ASSUME NEW v \in Visitor, LookedUp(v)
      PROVE  LookupInv' /\ (taken \/ cache = "yes" => ~SentToRegister)
  <2>1. /\ lookup[v] \in {"yes", "no"} /\ cache' = lookup[v] /\ looking = v
        /\ lookup' = [lookup EXCEPT ![v] = "none"] /\ looking' = Nobody
        /\ accounts' = accounts /\ taken' = taken
        /\ Send(Waiting(v), lookup[v] = "yes")
    BY <1>6 DEF LookedUp, SettleLookup
  <2>2. \A w \in Visitor : lookup'[w] = "none"
    BY <2>1
  <2>3. lookup[v] = "yes" => accounts # {}
    OBVIOUS
  <2>4. LookupInv'
    BY <2>1, <2>2, <2>3
  <2>5. taken \/ cache = "yes" => ~SentToRegister
    BY <2>1 DEF Send
  <2>6. QED
    BY <2>4, <2>5
<1>7. ASSUME NEW v \in Visitor, LookupFails(v)
      PROVE  LookupInv' /\ (taken \/ cache = "yes" => ~SentToRegister)
  BY <1>7 DEF LookupFails, SettleLookup, Send, Otherwise
<1>8. CASE Lapse
  BY <1>8 DEF Lapse
<1>9. CASE ProxyRestart
  BY <1>9 DEF ProxyRestart
<1>10. CASE UNCHANGED accountVars
  BY <1>10 DEF accountVars
<1>11. QED
  BY <1>1, <1>2, <1>3, <1>4, <1>5, <1>6, <1>7, <1>8, <1>9, <1>10 DEF AccountNext

\* The types of accounts, sessions and lookups.
THEOREM AccountTypeCorrect == FirstAccountAssumption => (AccountSpec => []AccountTypeOK)
<1> SUFFICES ASSUME FirstAccountAssumption PROVE AccountSpec => []AccountTypeOK
  OBVIOUS
<1>1. AccountInit => AccountTypeOK
  BY AccountInitInv DEF AccountInv
<1>2. AccountTypeOK /\ [AccountNext]_accountVars => AccountTypeOK'
  BY AccountTypeStep
<1>3. QED
  BY <1>1, <1>2, PTL DEF AccountSpec

\* AccountStaysSeen: nobody is sent to register once an account is known of.
THEOREM AccountsAreNotForgotten == FirstAccountAssumption => (AccountSpec => AccountStaysSeen)
<1> SUFFICES ASSUME FirstAccountAssumption PROVE AccountSpec => AccountStaysSeen
  OBVIOUS
<1>1. AccountInit => AccountInv
  BY AccountInitInv
<1>2. AccountInv /\ [AccountNext]_accountVars => AccountInv'
  BY AccountStep
<1>3. AccountInv /\ [AccountNext]_accountVars =>
        [taken \/ cache = "yes" =>
          \A v \in Visitor : page'[v] = "register" => page[v] = "register"]_accountVars
  BY AccountStep DEF SentToRegister
<1>4. QED
  BY <1>1, <1>2, <1>3, PTL DEF AccountSpec, AccountStaysSeen

-------------------------------------------------------------------------------
(* TerminalSessions. *)

Life  == {"unborn", "running", "killed", "over"}
Shell == [place : Container \cup {Host}, bash : BOOLEAN, of : Connection]

\* A process that is there has a shell.
Shelled(lives, shells) ==
    /\ lives \in [Process -> Life] /\ shells \in [Process -> Shell \cup {NoShell}]
    /\ \A q \in Process : IF lives[q] \in {"unborn", "over"} THEN shells[q] = NoShell
                          ELSE shells[q] \in Shell

\* The connection of shell sh is there, attached to q, and asked for its place last.
Owned(q, sh, conns, held, places) ==
    /\ sh.of \in conns /\ held[sh.of] = q
    /\ sh.place = IF places[sh.of] = NoContainer THEN Host ELSE places[sh.of]

OwnedAll(lives, shells, conns, held, places) ==
    \A q \in Process : lives[q] = "running" => Owned(q, shells[q], conns, held, places)

\* The processes that run belong to other connections than c.
NoneOf(c, lives, shells) ==
    \A q \in Process : lives[q] = "running" => shells[q].of # c

\* A connection that has not been made has nothing; one is counted until its close event.
ConnectionInv ==
    /\ IsFiniteSet(active)
    /\ active = {c \in Connection : ws[c] \in {"open", "closing"}}
    /\ \A c \in Connection : ws[c] = "idle" => ptyProcess[c] = 0 /\ target[c] = NoContainer

ProcessInv == Shelled(life, shell) /\ OwnedAll(life, shell, active, ptyProcess, target)

LimitInv == \A c \in Connection : Cardinality(OfUser(c)) <= MaxSessions

SessionsInv == TerminalTypeOK /\ ConnectionInv /\ ProcessInv /\ LimitInv

\* What spawning needs: processes with shells, none of which runs for c.
Free(c, lives, shells) ==
    /\ Shelled(lives, shells) /\ NoneOf(c, lives, shells)
    /\ OwnedAll(lives, shells, active, ptyProcess, target)

\* What it leaves of everything but the connections.
Settled(c) ==
    /\ ProcessInv'
    /\ ptyProcess' \in [Connection -> Process \cup {0}]
    /\ target' \in [Connection -> Container \cup {NoContainer}]
    /\ \A d \in Connection \ {c} : ptyProcess'[d] = ptyProcess[d] /\ target'[d] = target[d]

-------------------------------------------------------------------------------
(* Spawning, when the connection has no process that runs *)

\* The process spawned belongs to the connection, where it was asked for.
LEMMA SpawnStep ==
    ASSUME TerminalSessionsAssumption, TerminalTypeOK,
           NEW c \in Connection, NEW place \in Container \cup {Host}, NEW bash \in BOOLEAN,
           NEW lives, NEW shells, Free(c, lives, shells),
           Spawn(c, place, bash, lives, shells),
           active \subseteq active', c \in active',
           target' = [target EXCEPT ![c] = IF place = Host THEN NoContainer ELSE place]
    PROVE  Settled(c)
<1>1. PICK p \in Process :
         /\ \A q \in Process : lives[q] = "unborn" <=> q >= p
         /\ life' = [lives EXCEPT ![p] = "running"]
         /\ shell' = [shells EXCEPT ![p] = [place |-> place, bash |-> bash, of |-> c]]
         /\ ptyProcess' = [ptyProcess EXCEPT ![c] = p]
  BY DEF Spawn
<1>2. [place |-> place, bash |-> bash, of |-> c] \in Shell
  BY DEF Shell
<1>3. Shelled(life', shell')
  BY <1>1, <1>2 DEF Shelled, Life, Free
<1>4. /\ ptyProcess \in [Connection -> Process \cup {0}]
      /\ target \in [Connection -> Container \cup {NoContainer}]
  BY DEF TerminalTypeOK
<1>5. ASSUME NEW q \in Process, life'[q] = "running"
      PROVE  Owned(q, shell'[q], active', ptyProcess', target')
  <2>1. CASE q = p
    <3>1. shell'[q] = [place |-> place, bash |-> bash, of |-> c]
      BY <1>1, <2>1 DEF Shelled, Free
    <3>2. ptyProcess'[c] = q
      BY <1>1, <1>4, <2>1
    <3>3. place = IF target'[c] = NoContainer THEN Host ELSE target'[c]
      BY <1>4 DEF TerminalSessionsAssumption
    <3> QED
      BY <3>1, <3>2, <3>3 DEF Owned
  <2>2. CASE q # p
    <3>1. lives[q] = "running" /\ shell'[q] = shells[q]
      BY <1>1, <1>5, <2>2 DEF Shelled, Free
    <3>2. shells[q].of # c /\ Owned(q, shells[q], active, ptyProcess, target)
      BY <3>1 DEF Free, NoneOf, OwnedAll
    <3>3. shells[q].of \in Connection
      BY <3>2 DEF Owned, TerminalTypeOK
    <3>4. /\ ptyProcess'[shells[q].of] = ptyProcess[shells[q].of]
          /\ target'[shells[q].of] = target[shells[q].of]
      BY <1>1, <1>4, <3>2, <3>3
    <3> QED
      BY <3>1, <3>2, <3>4 DEF Owned
  <2> QED
    BY <2>1, <2>2
<1>6. ProcessInv'
  BY <1>3, <1>5 DEF ProcessInv, OwnedAll
<1> QED
  BY <1>1, <1>4, <1>6 DEF Settled

\* What does not spawn leaves nothing that runs for the connection.
LEMMA HeldStep ==
    ASSUME TerminalTypeOK, NEW c \in Connection, NEW lives, NEW shells, Free(c, lives, shells),
           NEW held \in Process \cup {0}, active' = active,
           life' = lives, shell' = shells, ptyProcess' = [ptyProcess EXCEPT ![c] = held],
           target' = [target EXCEPT ![c] = NoContainer]
    PROVE  Settled(c)
<1>1. /\ ptyProcess \in [Connection -> Process \cup {0}]
      /\ target \in [Connection -> Container \cup {NoContainer}] /\ active \subseteq Connection
  BY DEF TerminalTypeOK
<1>2. ASSUME NEW q \in Process, life'[q] = "running"
      PROVE  Owned(q, shell'[q], active', ptyProcess', target')
  <2>1. shells[q].of # c /\ Owned(q, shells[q], active, ptyProcess, target)
    BY <1>2 DEF Free, NoneOf, OwnedAll
  <2>2. shells[q].of \in Connection
    BY <1>1, <2>1 DEF Owned
  <2> QED
    BY <1>1, <2>1, <2>2 DEF Owned
<1>3. ProcessInv'
  BY <1>2 DEF ProcessInv, OwnedAll, Free
<1> QED
  BY <1>1, <1>3 DEF Settled

\* A shell on the host, or a connection that closes.
LEMMA HostShellStep ==
    ASSUME TerminalSessionsAssumption, TerminalTypeOK, NEW c \in active,
           NEW lives, NEW shells, Free(c, lives, shells), NEW held \in Process \cup {0},
           HostShell(c, lives, shells, held), active' = active
    PROVE  Settled(c) /\ (ws' = ws \/ ws' = [ws EXCEPT ![c] = "closing"])
<1>1. c \in Connection
  BY DEF TerminalTypeOK
<1>2. target' = [target EXCEPT ![c] = NoContainer]
  BY DEF HostShell
<1>3. CASE Spawn(c, Host, FALSE, lives, shells) /\ ws' = ws
  BY <1>1, <1>2, <1>3, SpawnStep
<1>4. CASE /\ ws' = [ws EXCEPT ![c] = "closing"]
           /\ life' = lives /\ shell' = shells
           /\ ptyProcess' = [ptyProcess EXCEPT ![c] = held]
  BY <1>1, <1>2, <1>4, HeldStep
<1> QED
  BY <1>3, <1>4 DEF HostShell

\* A shell in a container, or on the host instead.
LEMMA DockerShellStep ==
    ASSUME TerminalSessionsAssumption, TerminalTypeOK, NEW c \in active,
           NEW place \in Container, NEW bash \in BOOLEAN,
           NEW lives, NEW shells, Free(c, lives, shells), NEW held \in Process \cup {0},
           DockerShell(c, place, bash, lives, shells, held), active' = active
    PROVE  Settled(c) /\ (ws' = ws \/ ws' = [ws EXCEPT ![c] = "closing"])
<1>1. c \in Connection /\ place # Host
  BY DEF TerminalTypeOK, TerminalSessionsAssumption
<1>2. CASE /\ Spawn(c, place, bash, lives, shells)
           /\ target' = [target EXCEPT ![c] = place] /\ ws' = ws
  BY <1>1, <1>2, SpawnStep
<1>3. CASE HostShell(c, lives, shells, held)
  BY <1>3, HostShellStep
<1> QED
  BY <1>2, <1>3 DEF DockerShell

-------------------------------------------------------------------------------
(* SessionsInv is inductive *)

\* A connection that stays counted may change as far as Settled says.
LEMMA StaysCounted ==
    ASSUME SessionsInv, NEW c \in active, Settled(c), active' = active,
           ws' = ws \/ ws' = [ws EXCEPT ![c] = "closing"]
    PROVE  SessionsInv'
<1>1. c \in Connection /\ ws[c] \in {"open", "closing"}
  BY DEF SessionsInv, ConnectionInv
<1>2. ws \in [Connection -> {"idle", "open", "closing", "closed"}]
  BY DEF SessionsInv, TerminalTypeOK
<1>3. ws' \in [Connection -> {"idle", "open", "closing", "closed"}]
  BY <1>2
<1>4. \A d \in Connection : ws'[d] \in {"open", "closing"} <=> ws[d] \in {"open", "closing"}
  BY <1>1, <1>2
<1>5. \A d \in Connection : ws'[d] = "idle" => d # c /\ ws[d] = "idle"
  BY <1>1, <1>2
<1>6. ConnectionInv'
  BY <1>4, <1>5 DEF SessionsInv, ConnectionInv, Settled
<1>7. TerminalTypeOK'
  BY <1>3 DEF SessionsInv, TerminalTypeOK, Settled, ProcessInv, Shelled, Shell, Life
<1>8. LimitInv'
  BY DEF SessionsInv, LimitInv, OfUser
<1> QED
  BY <1>6, <1>7, <1>8 DEF SessionsInv, Settled

\* Killing the shell of a connection leaves none that runs for it.
LEMMA KilledStep ==
    ASSUME SessionsInv, NEW c \in Connection
    PROVE  Free(c, Killed(c), shell)
<1>1. Shelled(life, shell) /\ OwnedAll(life, shell, active, ptyProcess, target)
  BY DEF SessionsInv, ProcessInv
<1>2. Shelled(Killed(c), shell)
  BY <1>1 DEF Shelled, Killed, Life
<1>3. \A q \in Process : Killed(c)[q] = "running" => life[q] = "running" /\ q # ptyProcess[c]
  BY DEF Killed
<1> QED
  BY <1>1, <1>2, <1>3 DEF Free, NoneOf, OwnedAll, Owned

\* A process that has reported its exit leaves none that runs for its connection, if
\* the connection was attached to it.
LEMMA ExitedStep ==
    ASSUME SessionsInv, NEW p \in Process, life[p] \in {"running", "killed"}
    PROVE  LET lives == [life EXCEPT ![p] = "over"]
               shells == [shell EXCEPT ![p] = NoShell]
           IN /\ Shelled(lives, shells)
              /\ OwnedAll(lives, shells, active, ptyProcess, target)
              /\ \A c \in Connection : ptyProcess[c] = p => NoneOf(c, lives, shells)
<1> DEFINE lives == [life EXCEPT ![p] = "over"]
           shells == [shell EXCEPT ![p] = NoShell]
<1>1. Shelled(life, shell) /\ OwnedAll(life, shell, active, ptyProcess, target)
  BY DEF SessionsInv, ProcessInv
<1>2. Shelled(lives, shells)
  BY <1>1 DEF Shelled, Life
<1>3. \A q \in Process : lives[q] = "running" =>
        life[q] = "running" /\ q # p /\ shells[q] = shell[q]
  BY <1>1 DEF Shelled
<1> HIDE DEF lives, shells
<1>4. OwnedAll(lives, shells, active, ptyProcess, target)
  BY <1>1, <1>3 DEF OwnedAll
<1>5. \A c \in Connection : ptyProcess[c] = p => NoneOf(c, lives, shells)
  BY <1>1, <1>3 DEF OwnedAll, NoneOf, Owned
<1> QED
  BY <1>2, <1>4, <1>5 DEF lives, shells

\* A connection that may be made makes its user's one more, and gets a shell of its own.
LEMMA ConnectInv ==
    ASSUME TerminalSessionsAssumption, SessionsInv, NEW c \in Connection, Connect(c)
    PROVE  SessionsInv'
<1>1. /\ ws[c] = "idle" /\ target' = target /\ c \notin active
      /\ ptyProcess[c] = 0 /\ target[c] = NoContainer
  BY DEF Connect, SessionsInv, ConnectionInv
<1>2. /\ ws \in [Connection -> {"idle", "open", "closing", "closed"}]
      /\ ptyProcess \in [Connection -> Process \cup {0}]
      /\ target \in [Connection -> Container \cup {NoContainer}]
  BY DEF SessionsInv, TerminalTypeOK
<1>3. CASE Cardinality(OfUser(c)) >= MaxSessions
  <2>1. ws' = [ws EXCEPT ![c] = "closed"] /\ UNCHANGED <<active, ptyProcess, life, shell>>
    BY <1>3 DEF Connect
  <2>2. ConnectionInv'
    BY <1>1, <1>2, <2>1 DEF SessionsInv, ConnectionInv
  <2> QED
    BY <1>1, <1>2, <2>1, <2>2 DEF SessionsInv, TerminalTypeOK, ProcessInv, LimitInv, OfUser
<1>4. CASE ~(Cardinality(OfUser(c)) >= MaxSessions)
  <2>1. /\ active' = active \cup {c}
        /\ \/ Spawn(c, Host, FALSE, life, shell) /\ ws' = [ws EXCEPT ![c] = "open"]
           \/ ws' = [ws EXCEPT ![c] = "closing"] /\ UNCHANGED <<ptyProcess, life, shell>>
    BY <1>4 DEF Connect
  <2>2. Free(c, life, shell)
    BY <1>1 DEF SessionsInv, ProcessInv, Free, NoneOf, OwnedAll, Owned
  <2>3. Settled(c)
    <3>1. CASE Spawn(c, Host, FALSE, life, shell)
      <4>1. target' = [target EXCEPT ![c] = IF Host = Host THEN NoContainer ELSE Host]
        BY <1>1, <1>2
      <4>2. TerminalTypeOK /\ active \subseteq active' /\ c \in active'
        BY <2>1 DEF SessionsInv
      <4> QED
        BY <2>2, <3>1, <4>1, <4>2, SpawnStep
    <3>2. CASE UNCHANGED <<ptyProcess, life, shell>>
      BY <1>1, <1>2, <2>1, <3>2 DEF SessionsInv, ProcessInv, Settled, OwnedAll, Owned
    <3> QED
      BY <2>1, <3>1, <3>2
  <2>4. ws' \in [Connection -> {"idle", "open", "closing", "closed"}]
    BY <1>2, <2>1
  <2>5. ConnectionInv'
    <3>1. IsFiniteSet(active')
      BY <2>1, FS_AddElement DEF SessionsInv, ConnectionInv
    <3>2. ws'[c] \in {"open", "closing"} /\ \A d \in Connection \ {c} : ws'[d] = ws[d]
      BY <1>2, <2>1
    <3>3. active' = {d \in Connection : ws'[d] \in {"open", "closing"}}
      BY <2>1, <3>2 DEF SessionsInv, ConnectionInv
    <3> QED
      BY <2>3, <3>1, <3>2, <3>3 DEF SessionsInv, ConnectionInv, Settled
  <2>6. LimitInv'
    <3> SUFFICES ASSUME NEW d \in Connection
                 PROVE  Cardinality(OfUser(d)') <= MaxSessions
      BY DEF LimitInv
    <3>1. CASE OwnerOf[d] = OwnerOf[c]
      <4>1. OfUser(d)' = OfUser(c) \cup {c} /\ c \notin OfUser(c)
        BY <1>1, <2>1, <3>1 DEF OfUser
      <4>2. IsFiniteSet(OfUser(c))
        BY FS_Subset DEF OfUser, SessionsInv, ConnectionInv
      <4>3. Cardinality(OfUser(d)') = Cardinality(OfUser(c)) + 1
        BY <4>1, <4>2, FS_AddElement
      <4>4. Cardinality(OfUser(c)) \in Nat
        BY <4>2, FS_CardinalityType
      <4> QED
        BY <1>4, <4>3, <4>4 DEF TerminalSessionsAssumption
    <3>2. CASE OwnerOf[d] # OwnerOf[c]
      <4>1. OfUser(d)' = OfUser(d)
        BY <2>1, <3>2 DEF OfUser
      <4> QED
        BY <4>1 DEF SessionsInv, LimitInv
    <3> QED
      BY <3>1, <3>2
  <2>7. TerminalTypeOK'
    BY <2>1, <2>3, <2>4 DEF SessionsInv, TerminalTypeOK, Settled, ProcessInv, Shelled, Shell, Life
  <2> QED
    BY <2>3, <2>5, <2>6, <2>7 DEF SessionsInv, Settled
<1> QED
  BY <1>3, <1>4

\* An attach kills the shell the connection has before it asks for another.
LEMMA AttachInv ==
    ASSUME TerminalSessionsAssumption, SessionsInv, NEW c \in Connection, Attach(c)
    PROVE  SessionsInv'
<1>1. c \in active /\ active' = active
  BY DEF Attach, SessionsInv, ConnectionInv
<1>2. PICK place \in Container : DockerShell(c, place, TRUE, Killed(c), shell, 0)
  BY DEF Attach
<1>3. Free(c, Killed(c), shell)
  BY KilledStep
<1>4. Settled(c) /\ (ws' = ws \/ ws' = [ws EXCEPT ![c] = "closing"])
  BY <1>1, <1>2, <1>3, DockerShellStep DEF SessionsInv
<1> QED
  BY <1>1, <1>4, StaysCounted

\* A connection that is asked to close stays what it is.
LEMMA TimesOutInv ==
    ASSUME SessionsInv, NEW c \in Connection, TimesOut(c)
    PROVE  SessionsInv'
<1>1. /\ c \in active /\ ws' = [ws EXCEPT ![c] = "closing"]
      /\ UNCHANGED <<active, ptyProcess, target, life, shell>>
  BY DEF TimesOut, SessionsInv, ConnectionInv
<1>2. Settled(c)
  BY <1>1 DEF SessionsInv, TerminalTypeOK, ProcessInv, Settled
<1> QED
  BY <1>1, <1>2, StaysCounted

\* The close event kills the shell and uncounts the connection.
LEMMA CloseInv ==
    ASSUME TerminalSessionsAssumption, SessionsInv, NEW c \in Connection, Close(c)
    PROVE  SessionsInv'
<1>1. /\ ws' = [ws EXCEPT ![c] = "closed"] /\ active' = active \ {c}
      /\ life' = Killed(c) /\ ptyProcess' = [ptyProcess EXCEPT ![c] = 0]
      /\ target' = target /\ shell' = shell
  BY DEF Close
<1>2. /\ ws \in [Connection -> {"idle", "open", "closing", "closed"}]
      /\ ptyProcess \in [Connection -> Process \cup {0}] /\ active \subseteq Connection
  BY DEF SessionsInv, TerminalTypeOK
<1>3. Free(c, Killed(c), shell)
  BY KilledStep
<1>4. ProcessInv'
  <2>1. ASSUME NEW q \in Process, Killed(c)[q] = "running"
        PROVE  Owned(q, shell[q], active', ptyProcess', target')
    <3>1. shell[q].of # c /\ Owned(q, shell[q], active, ptyProcess, target)
      BY <1>3, <2>1 DEF Free, NoneOf, OwnedAll
    <3>2. shell[q].of \in Connection
      BY <1>2, <3>1 DEF Owned
    <3> QED
      BY <1>1, <1>2, <3>1, <3>2 DEF Owned
  <2> QED
    BY <1>1, <1>3, <2>1 DEF ProcessInv, OwnedAll, Free
<1>5. ConnectionInv'
  <2>1. IsFiniteSet(active')
    BY <1>1, FS_RemoveElement DEF SessionsInv, ConnectionInv
  <2> QED
    BY <1>1, <1>2, <2>1 DEF SessionsInv, ConnectionInv
<1>6. LimitInv'
  <2> SUFFICES ASSUME NEW d \in Connection
               PROVE  Cardinality(OfUser(d)') <= MaxSessions
    BY DEF LimitInv
  <2>1. OfUser(d)' \subseteq OfUser(d)
    BY <1>1 DEF OfUser
  <2>2. IsFiniteSet(OfUser(d))
    BY FS_Subset DEF OfUser, SessionsInv, ConnectionInv
  <2>3. /\ Cardinality(OfUser(d)') <= Cardinality(OfUser(d))
        /\ Cardinality(OfUser(d)') \in Nat /\ Cardinality(OfUser(d)) \in Nat
    BY <2>1, <2>2, FS_Subset, FS_CardinalityType
  <2> QED
    BY <2>3 DEF SessionsInv, LimitInv, TerminalSessionsAssumption
<1>7. TerminalTypeOK'
  BY <1>1, <1>2, <1>4 DEF SessionsInv, TerminalTypeOK, ProcessInv, Shelled, Shell, Life
<1> QED
  BY <1>4, <1>5, <1>6, <1>7 DEF SessionsInv

\* The exit of a process that its connection is attached to leaves the connection free for
\* another; any other exit changes nothing for it.
LEMMA ExitInv ==
    ASSUME TerminalSessionsAssumption, SessionsInv, NEW p \in Process, Exit(p)
    PROVE  SessionsInv'
<1> DEFINE c == shell[p].of
           lives == [life EXCEPT ![p] = "over"]
           shells == [shell EXCEPT ![p] = NoShell]
<1>1. life[p] \in {"running", "killed"} /\ active' = active
  BY DEF Exit
<1>2. c \in Connection /\ p # 0
  BY <1>1 DEF SessionsInv, ProcessInv, Shelled, Shell, Process, TerminalSessionsAssumption
<1>3. /\ Shelled(lives, shells) /\ OwnedAll(lives, shells, active, ptyProcess, target)
      /\ ptyProcess[c] = p => NoneOf(c, lives, shells)
  BY <1>1, <1>2, ExitedStep
<1>4. CASE ~Heeds(c, p) \/ ws[c] = "closed" \/ shell[p].place = Host
  <2>1. /\ life' = lives /\ shell' = shells /\ UNCHANGED <<ptyProcess, target>>
        /\ ws' = [ws EXCEPT ![c] = IF Heeds(c, p) /\ @ # "closed" THEN "closing" ELSE @]
    BY <1>4 DEF Exit
  <2>2. ProcessInv'
    BY <1>1, <1>3, <2>1 DEF ProcessInv
  <2>3. ws \in [Connection -> {"idle", "open", "closing", "closed"}]
    BY DEF SessionsInv, TerminalTypeOK
  <2>4. CASE c \in active
    <3>1. Settled(c)
      BY <2>1, <2>2 DEF Settled, SessionsInv, TerminalTypeOK
    <3>2. ws' = ws \/ ws' = [ws EXCEPT ![c] = "closing"]
      BY <2>1, <2>3
    <3> QED
      BY <1>1, <2>4, <3>1, <3>2, StaysCounted
  <2>5. CASE c \notin active
    <3>1. ws[c] \in {"idle", "closed"} /\ (ws[c] = "idle" => ~Heeds(c, p))
      BY <1>2, <2>3, <2>5 DEF SessionsInv, ConnectionInv, Heeds
    <3>2. ws' = ws
      BY <2>1, <2>3, <3>1
    <3>3. TerminalTypeOK' /\ ConnectionInv' /\ LimitInv'
      BY <1>1, <2>1, <2>2, <3>2
      DEF SessionsInv, TerminalTypeOK, ConnectionInv, LimitInv, OfUser, ProcessInv, Shelled, Shell, Life
    <3> QED
      BY <2>2, <3>3 DEF SessionsInv
  <2> QED
    BY <2>4, <2>5
<1>5. CASE ~(~Heeds(c, p) \/ ws[c] = "closed" \/ shell[p].place = Host)
  <2>1. c \in active
    BY <1>2, <1>5 DEF SessionsInv, TerminalTypeOK, ConnectionInv, Heeds
  <2>2. Free(c, lives, shells)
    BY <1>3, <1>5 DEF Free, Heeds
  <2>3. \/ /\ shell[p].bash /\ target[c] # NoContainer
           /\ DockerShell(c, target[c], FALSE, lives, shells, p)
        \/ HostShell(c, lives, shells, p)
    BY <1>5 DEF Exit
  <2>4. TerminalTypeOK /\ p \in Process \cup {0} /\ target[c] \in Container \cup {NoContainer}
    BY <1>2 DEF SessionsInv, TerminalTypeOK
  <2> HIDE DEF lives, shells, c
  <2>5. Settled(c) /\ (ws' = ws \/ ws' = [ws EXCEPT ![c] = "closing"])
    <3>1. CASE target[c] # NoContainer /\ DockerShell(c, target[c], FALSE, lives, shells, p)
      <4>1. target[c] \in Container
        BY <2>4, <3>1
      <4> QED
        BY <1>1, <2>1, <2>2, <2>4, <3>1, <4>1, DockerShellStep
    <3>2. CASE HostShell(c, lives, shells, p)
      BY <1>1, <2>1, <2>2, <2>4, <3>2, HostShellStep
    <3> QED
      BY <2>3, <3>1, <3>2
  <2> QED
    BY <1>1, <2>1, <2>5, StaysCounted
<1> QED
  BY <1>4, <1>5

\* Every step keeps SessionsInv.
LEMMA SessionsNextInv ==
    ASSUME TerminalSessionsAssumption, SessionsInv, [TerminalNext]_terminalVars
    PROVE  SessionsInv'
<1>1. CASE UNCHANGED terminalVars
  BY <1>1 DEF terminalVars, SessionsInv, TerminalTypeOK, ConnectionInv, ProcessInv, LimitInv, OfUser
<1>2. ASSUME NEW c \in Connection, Connect(c) \/ Attach(c) \/ TimesOut(c) \/ Close(c)
      PROVE  SessionsInv'
  BY <1>2, ConnectInv, AttachInv, TimesOutInv, CloseInv
<1>3. ASSUME NEW p \in Process, Exit(p)
      PROVE  SessionsInv'
  BY <1>3, ExitInv
<1> QED
  BY <1>1, <1>2, <1>3 DEF TerminalNext

\* SessionsInv holds before any connection is made.
LEMMA SessionsInitInv == ASSUME TerminalSessionsAssumption, TerminalInit PROVE SessionsInv
<1>1. active = {} /\ IsFiniteSet(active)
  BY FS_EmptySet DEF TerminalInit
<1>2. LimitInv
  <2> SUFFICES ASSUME NEW c \in Connection PROVE Cardinality(OfUser(c)) <= MaxSessions
    BY DEF LimitInv
  <2>1. OfUser(c) = {}
    BY <1>1 DEF OfUser
  <2> QED
    BY <2>1, FS_EmptySet DEF TerminalSessionsAssumption
<1>3. TerminalTypeOK /\ ConnectionInv
  BY <1>1 DEF TerminalInit, TerminalTypeOK, ConnectionInv
<1>4. ProcessInv
  BY DEF TerminalInit, ProcessInv, Shelled, OwnedAll, Life
<1> QED
  BY <1>2, <1>3, <1>4 DEF SessionsInv

-------------------------------------------------------------------------------

\* However exits, attaches and closes interleave, a shell runs only for an open connection
\* that is attached to it, where that connection asked for it last, and no user has more
\* connections than allowed.
THEOREM ShellsAreOwned ==
    ASSUME TerminalSessionsAssumption PROVE TerminalSpec => []ShellsHaveOwners
<1>1. TerminalInit => SessionsInv
  BY SessionsInitInv
<1>2. SessionsInv /\ [TerminalNext]_terminalVars => SessionsInv'
  BY SessionsNextInv
<1>3. SessionsInv => ShellsHaveOwners
  BY DEF SessionsInv, ProcessInv, LimitInv, OwnedAll, Owned, ShellsHaveOwners
<1> QED
  BY <1>1, <1>2, <1>3, PTL DEF TerminalSpec

\* The types of connections and shells, for any number of connections, users and shells.
THEOREM TerminalTypeCorrect ==
    ASSUME TerminalSessionsAssumption PROVE TerminalSpec => []TerminalTypeOK
<1>1. TerminalInit => SessionsInv
  BY SessionsInitInv
<1>2. SessionsInv /\ [TerminalNext]_terminalVars => SessionsInv'
  BY SessionsNextInv
<1>3. SessionsInv => TerminalTypeOK
  BY DEF SessionsInv
<1> QED
  BY <1>1, <1>2, <1>3, PTL DEF TerminalSpec

-------------------------------------------------------------------------------
(* NetworkEvents. *)

\* Whoever subscribes is served by a socket that is being connected or is connected, or the
\* timer that connects the next one is set; and when nobody does, neither is there.
SomebodyListens ==
    /\ subscribers # {} => reconnectTimer \/ handle # 0
    /\ handle # 0 => socket[handle] \in {"connecting", "connected"}
    /\ subscribers = {} => ~reconnectTimer /\ handle = 0

BridgeInv == BridgeTypeOK /\ SomebodyListens /\ (bridgeStarted <=> subscribers # {})

LEMMA BridgeInitInv == NetworkEventsAssumption /\ BridgeInit => BridgeInv
<1> SUFFICES ASSUME NetworkEventsAssumption, BridgeInit PROVE BridgeInv
  OBVIOUS
<1>1. socket = [s \in Socket |-> "closed"]
  BY DEF BridgeInit
<1>2. leaves \in 0..MaxLeaves /\ helperOutages \in 0..MaxHelperOutages
  BY DEF NetworkEventsAssumption, BridgeInit
<1> QED BY <1>1, <1>2 DEF BridgeInit, BridgeInv, BridgeTypeOK, SomebodyListens

LEMMA BridgeStep ==
    ASSUME NetworkEventsAssumption, BridgeInv, [BridgeNext]_bridgeVars
    PROVE  BridgeInv'
<1> USE DEF BridgeInv, BridgeTypeOK, SomebodyListens
<1> Sockets \in Nat /\ MaxLeaves \in Nat /\ MaxHelperOutages \in Nat
  BY DEF NetworkEventsAssumption
<1>1. ASSUME NEW c \in Client, Subscribe(c) PROVE BridgeInv'
  <2>1. CASE bridgeStarted
    BY <1>1, <2>1 DEF Subscribe
  <2>2. CASE ~bridgeStarted
    BY <1>1, <2>2 DEF Subscribe, ConnectBridge, Socket
  <2> QED BY <2>1, <2>2
<1>2. ASSUME NEW c \in Client, Unsubscribe(c) PROVE BridgeInv'
  <2>1. leaves' \in 0..MaxLeaves
    BY <1>2 DEF Unsubscribe
  <2>2. CASE subscribers' = {}
    <3>1. socket' \in [Socket -> {"closed", "connecting", "connected", "failed", "destroyed"}]
      BY <1>2, <2>2 DEF Unsubscribe
    <3> QED BY <1>2, <2>1, <2>2, <3>1 DEF Unsubscribe
  <2>3. CASE subscribers' # {}
    BY <1>2, <2>1, <2>3 DEF Unsubscribe
  <2> QED BY <2>2, <2>3
<1>3. ASSUME NEW s \in Socket, SocketFails(s) PROVE BridgeInv'
  BY <1>3 DEF SocketFails, OnError
<1>4. ASSUME NEW s \in Socket, SocketCloses(s) PROVE BridgeInv'
  BY <1>4 DEF SocketCloses, OnError
<1>5. ASSUME NEW s \in Socket, SocketOpens(s) PROVE BridgeInv'
  BY <1>5 DEF SocketOpens
<1>6. ASSUME Reconnect PROVE BridgeInv'
  <2>1. CASE ~bridgeStarted \/ handle # 0
    BY <1>6, <2>1 DEF Reconnect, ConnectBridge
  <2>2. CASE bridgeStarted /\ handle = 0
    <3>1. PICK s \in Socket : /\ handle' = s /\ reconnectTimer' = FALSE
                              /\ socket' = [socket EXCEPT ![s] = "connecting"]
      BY <1>6, <2>2 DEF Reconnect, ConnectBridge
    <3>2. s # 0
      BY DEF Socket
    <3>3. socket'[s] = "connecting"
      BY <3>1
    <3>4. UNCHANGED <<subscribers, bridgeStarted, helperUp, leaves, helperOutages>>
      BY <1>6 DEF Reconnect
    <3> QED BY <2>2, <3>1, <3>2, <3>3, <3>4
  <2> QED BY <2>1, <2>2
<1>7. ASSUME HelperStops \/ HelperStarts PROVE BridgeInv'
  <2>1. helperOutages' \in 0..MaxHelperOutages
    BY <1>7 DEF HelperStops, HelperStarts
  <2>2. helperUp' \in BOOLEAN
    BY <1>7 DEF HelperStops, HelperStarts
  <2>3. UNCHANGED <<subscribers, bridgeStarted, handle, reconnectTimer, socket, leaves>>
    BY <1>7 DEF HelperStops, HelperStarts
  <2> QED BY <2>1, <2>2, <2>3
<1>8. CASE UNCHANGED bridgeVars
  BY <1>8 DEF bridgeVars
<1> QED BY <1>1, <1>2, <1>3, <1>4, <1>5, <1>6, <1>7, <1>8 DEF BridgeNext

\* The bridge's variables keep their types, for any subscribers, sockets and outages.
THEOREM BridgeTypeCorrect == NetworkEventsAssumption => (BridgeSpec => []BridgeTypeOK)
<1> SUFFICES ASSUME NetworkEventsAssumption PROVE BridgeSpec => []BridgeTypeOK
  OBVIOUS
<1>1. BridgeInit => BridgeInv
  BY BridgeInitInv
<1>2. BridgeInv /\ [BridgeNext]_bridgeVars => BridgeInv'
  BY BridgeStep
<1>3. BridgeInv => BridgeTypeOK
  BY DEF BridgeInv
<1> QED BY <1>1, <1>2, <1>3, PTL DEF BridgeSpec

\* No late error or close of an earlier socket leaves subscribers with neither a socket nor
\* a timer (events.ts), and a bridge that nobody needs has given both up.
THEOREM BridgeGoesOn == NetworkEventsAssumption => (BridgeSpec => []SomebodyListens)
<1> SUFFICES ASSUME NetworkEventsAssumption PROVE BridgeSpec => []SomebodyListens
  OBVIOUS
<1>1. BridgeInit => BridgeInv
  BY BridgeInitInv
<1>2. BridgeInv /\ [BridgeNext]_bridgeVars => BridgeInv'
  BY BridgeStep
<1>3. BridgeInv => SomebodyListens
  BY DEF BridgeInv
<1> QED BY <1>1, <1>2, <1>3, PTL DEF BridgeSpec

-------------------------------------------------------------------------------
(* OperationTracking. *)

Followed(o) == tracking[o] \in {"first", "on"}
Awaited(o) == \E k \in 1..Slots : fetch[o][k] # "free"

\* Whatever is followed will be looked at again: a fetch of it is under way, or its timer is set.
FollowedIsPolled == \A o \in Op : Followed(o) => Awaited(o) \/ pollTimer[o]

\* What is on the screen is followed, or the timer that takes it away is set.
ShownIsLetGo == shown.op # 0 => Followed(shown.op) \/ linger[shown.op]

\* An operation has its stream from the end of the first fetch until it is let go of, also
\* when the page is left in between.
StreamInv(o) ==
    /\ eventSource[o] # "none" <=> tracking[o] = "on"
    /\ wire[o] # <<>> => eventSource[o] = "open"
    /\ pollTimer[o] => tracking[o] = "on"
    /\ tracking[o] = "idle" => ~Awaited(o)
    /\ server[o] = "unborn" => tracking[o] = "idle"

TrackingInv ==
    /\ TrackingTypeOK /\ FollowedIsPolled /\ ShownIsLetGo
    /\ \A o \in Op : StreamInv(o)

LEMMA TrackingInitInv == OperationTrackingAssumption /\ TrackingInit => TrackingInv
<1> SUFFICES ASSUME OperationTrackingAssumption, TrackingInit PROVE TrackingInv
  OBVIOUS
<1>1. \A o \in Op : /\ tracking[o] = "idle" /\ fetch[o] = [k \in 1..Slots |-> "free"]
                    /\ ~pollTimer[o] /\ eventSource[o] = "none" /\ wire[o] = <<>>
  BY DEF TrackingInit
<1>2. shown = [op |-> 0, status |-> "queued"] /\ shown \in [op : Op \cup {0}, status : Status]
  BY DEF TrackingInit, NothingShown, Status
<1>3. wire \in [Op -> Seq(Status)] /\ losses \in 0..MaxLosses
  BY DEF TrackingInit, OperationTrackingAssumption
<1>4. TrackingTypeOK
  BY <1>2, <1>3 DEF TrackingTypeOK, TrackingInit, Status
<1>5. \A o \in Op : ~Followed(o) /\ ~Awaited(o)
  BY <1>1 DEF Followed, Awaited
<1>6. FollowedIsPolled /\ ShownIsLetGo
  BY <1>2, <1>5 DEF FollowedIsPolled, ShownIsLetGo
<1>7. \A o \in Op : StreamInv(o)
  BY <1>1, <1>5 DEF StreamInv
<1> QED BY <1>4, <1>6, <1>7 DEF TrackingInv

\* A fetch is sent with the first slot that is free.
LEMMA TrackStep ==
    ASSUME TrackingTypeOK, NEW o \in Op, Sync(o)
    PROVE  /\ fetch' \in [Op -> [1..Slots -> Status \cup {"free", "asked", "pruned"}]]
           /\ \A p \in Op \ {o} : fetch'[p] = fetch[p]
           /\ Awaited(o)'
<1> DEFINE k == CHOOSE k \in FreeFetches(o) : TRUE
<1>1. k \in 1..Slots
  BY DEF Sync, FreeFetches
<1>2. fetch' = [fetch EXCEPT ![o] = [fetch[o] EXCEPT ![k] = "asked"]]
  BY DEF Sync
<1> HIDE DEF k
<1>3. fetch'[o] = [fetch[o] EXCEPT ![k] = "asked"]
  BY <1>2 DEF TrackingTypeOK
<1>. fetch[o] \in [1..Slots -> Status \cup {"free", "asked", "pruned"}]
  BY DEF TrackingTypeOK
<1>4. fetch'[o] \in [1..Slots -> Status \cup {"free", "asked", "pruned"}] /\ fetch'[o][k] = "asked"
  BY <1>1, <1>3
<1> QED BY <1>1, <1>2, <1>4 DEF TrackingTypeOK, Awaited

\* What a step does to one operation concerns the invariant of that one only.
LEMMA OneOperation ==
    ASSUME TrackingInv, TrackingTypeOK', ShownIsLetGo', NEW o \in Op,
           \A p \in Op \ {o} : /\ tracking'[p] = tracking[p] /\ fetch'[p] = fetch[p]
                               /\ pollTimer'[p] = pollTimer[p] /\ wire'[p] = wire[p]
                               /\ eventSource'[p] = eventSource[p] /\ server'[p] = server[p],
           StreamInv(o)', Followed(o)' => Awaited(o)' \/ pollTimer'[o]
    PROVE  TrackingInv'
<1>1. ASSUME NEW p \in Op \ {o}
      PROVE  StreamInv(p)' /\ (Followed(p)' => Awaited(p)' \/ pollTimer'[p])
  BY <1>1 DEF TrackingInv, StreamInv, FollowedIsPolled, Followed, Awaited
<1> QED BY <1>1 DEF TrackingInv, FollowedIsPolled

\* The rest of the state keeps its types.
RestTyped ==
    /\ server \in [Op -> Status \cup {"unborn", "pruned"}]
    /\ shown \in [op : Op \cup {0}, status : Status]
    /\ fetch \in [Op -> [1..Slots -> Status \cup {"free", "asked", "pruned"}]]
    /\ missing \in [Op -> Nat]
    /\ mounted \in BOOLEAN /\ losses \in 0..MaxLosses

\* An operation that is let go of has its timer to leave the screen.
LEMMA StopStep ==
    ASSUME TrackingInv, NEW o \in Op, StopTracking(o), RestTyped',
           UNCHANGED server, shown' = shown \/ shown'.op = o,
           \A p \in Op \ {o} : fetch'[p] = fetch[p], server[o] # "unborn"
    PROVE  TrackingInv'
<1> USE DEF TrackingTypeOK
<1>1. TrackingTypeOK
  BY DEF TrackingInv
<1>2. TrackingTypeOK'
  <2>1. tracking' \in [Op -> {"idle", "first", "on", "stopped"}]
    BY <1>1 DEF StopTracking
  <2>2. pollTimer' \in [Op -> BOOLEAN] /\ linger' \in [Op -> BOOLEAN]
    BY <1>1 DEF StopTracking
  <2>3. eventSource' \in [Op -> {"none", "connecting", "open", "refused"}]
    BY <1>1 DEF StopTracking
  <2>4. wire' \in [Op -> Seq(Status)]
    BY <1>1, EmptySeq DEF StopTracking
  <2> QED BY <2>1, <2>2, <2>3, <2>4 DEF RestTyped
<1>3. /\ tracking'[o] = "stopped" /\ eventSource'[o] = "none" /\ wire'[o] = <<>>
      /\ ~pollTimer'[o] /\ linger'[o]
  BY <1>1 DEF StopTracking
<1>4. \A p \in Op \ {o} : /\ tracking'[p] = tracking[p] /\ pollTimer'[p] = pollTimer[p]
                          /\ eventSource'[p] = eventSource[p] /\ wire'[p] = wire[p]
                          /\ linger'[p] = linger[p]
  BY <1>1 DEF StopTracking
<1>5. ShownIsLetGo'
  <2>1. CASE shown'.op = o
    BY <2>1, <1>3 DEF ShownIsLetGo
  <2>2. CASE shown' = shown /\ shown.op # o
    <3>1. shown.op \in Op \cup {0}
      BY <1>1
    <3> QED BY <2>2, <3>1, <1>4 DEF TrackingInv, ShownIsLetGo, Followed
  <2> QED BY <2>1, <2>2
<1>6. StreamInv(o)' /\ ~Followed(o)'
  BY <1>3 DEF StreamInv, Followed
<1> QED BY <1>2, <1>4, <1>5, <1>6, OneOperation

\* An operation whose fetch has ended without an end has its timer for the next one.
LEMMA GoOnStep ==
    ASSUME TrackingInv, NEW o \in Op, GoOn(o), Followed(o), RestTyped',
           UNCHANGED server, shown' = shown \/ shown'.op = o,
           \A p \in Op \ {o} : fetch'[p] = fetch[p]
    PROVE  TrackingInv'
<1> USE DEF TrackingTypeOK
<1>1. TrackingTypeOK /\ StreamInv(o)
  BY DEF TrackingInv
<1>2. TrackingTypeOK'
  <2>1. tracking' \in [Op -> {"idle", "first", "on", "stopped"}]
    BY <1>1 DEF GoOn
  <2>2. pollTimer' \in [Op -> BOOLEAN] /\ linger' \in [Op -> BOOLEAN]
    BY <1>1 DEF GoOn
  <2>3. eventSource' \in [Op -> {"none", "connecting", "open", "refused"}]
    BY <1>1 DEF GoOn
  <2>4. wire' \in [Op -> Seq(Status)]
    BY <1>1 DEF GoOn
  <2> QED BY <2>1, <2>2, <2>3, <2>4 DEF RestTyped
<1>3. tracking'[o] = "on" /\ pollTimer'[o] /\ UNCHANGED <<wire, linger>>
  BY <1>1 DEF GoOn
<1>4. eventSource'[o] = IF tracking[o] = "first" THEN "connecting" ELSE eventSource[o]
  BY <1>1 DEF GoOn
<1>5. \A p \in Op \ {o} : /\ tracking'[p] = tracking[p] /\ pollTimer'[p] = pollTimer[p]
                          /\ eventSource'[p] = eventSource[p] /\ wire'[p] = wire[p]
  BY <1>1 DEF GoOn
<1>6. ShownIsLetGo'
  <2>1. CASE shown'.op = o
    BY <2>1, <1>3 DEF ShownIsLetGo, Followed
  <2>2. CASE shown' = shown /\ shown.op # o
    <3>1. shown.op \in Op \cup {0}
      BY <1>1
    <3> QED BY <2>2, <3>1, <1>3, <1>5 DEF TrackingInv, ShownIsLetGo, Followed
  <2> QED BY <2>1, <2>2
<1>7. StreamInv(o)'
  BY <1>1, <1>3, <1>4 DEF StreamInv, Followed
<1> QED BY <1>2, <1>3, <1>5, <1>6, <1>7, OneOperation

\* Showing the status of an operation, on a page that may have been left.
LEMMA Showing ==
    ASSUME TrackingTypeOK, NEW o \in Op, NEW s \in Status, Show(o, s)
    PROVE  shown' \in [op : Op \cup {0}, status : Status] /\ (shown' = shown \/ shown'.op = o)
BY DEF Show, TrackingTypeOK

-------------------------------------------------------------------------------

LEMMA ServerStep ==
    ASSUME TrackingInv, NEW o \in Op, Admit(o) \/ Patch(o) \/ PruneRow(o)
    PROVE  TrackingInv'
<1> USE DEF TrackingTypeOK
<1>1. TrackingTypeOK /\ StreamInv(o)
  BY DEF TrackingInv
<1>2. /\ server' \in [Op -> Status \cup {"unborn", "pruned"}] /\ server'[o] # "unborn"
      /\ \A p \in Op \ {o} : server'[p] = server[p]
  BY <1>1 DEF Admit, Patch, PruneRow, Status, Ended
<1>3. UNCHANGED <<shown, tracking, fetch, pollTimer, missing, eventSource, linger, mounted, losses>>
  BY DEF Admit, Patch, PruneRow
<1>4. /\ wire' \in [Op -> Seq(Status)] /\ \A p \in Op \ {o} : wire'[p] = wire[p]
      /\ wire'[o] # <<>> => eventSource[o] = "open"
  <2>1. CASE Patch(o)
    <3>1. PICK s \in Status :
             wire' = [wire EXCEPT ![o] = IF eventSource[o] = "open" THEN Append(@, s) ELSE @]
      BY <2>1 DEF Patch, Status, Ended
    <3>2. Append(wire[o], s) \in Seq(Status)
      BY <1>1, AppendProperties
    <3> QED BY <1>1, <3>1, <3>2 DEF StreamInv
  <2>2. CASE Admit(o) \/ PruneRow(o)
    BY <1>1, <2>2 DEF Admit, PruneRow, StreamInv
  <2> QED BY <2>1, <2>2
<1>5. TrackingTypeOK'
  BY <1>1, <1>2, <1>3, <1>4
<1>6. ShownIsLetGo'
  BY <1>3 DEF TrackingInv, ShownIsLetGo, Followed
<1>7. StreamInv(o)'
  BY <1>1, <1>2, <1>3, <1>4 DEF StreamInv, Awaited
<1>8. Followed(o)' => Awaited(o)' \/ pollTimer'[o]
  BY <1>3 DEF TrackingInv, FollowedIsPolled, Followed, Awaited
<1> QED BY <1>2, <1>3, <1>4, <1>5, <1>6, <1>7, <1>8, OneOperation

LEMMA AttachStep ==
    ASSUME TrackingInv, NEW o \in Op, AttachTracking(o)
    PROVE  TrackingInv'
<1> USE DEF TrackingTypeOK
<1>1. TrackingTypeOK /\ StreamInv(o)
  BY DEF TrackingInv
<1>2. /\ shown' \in [op : Op \cup {0}, status : Status]
      /\ shown' = shown \/ shown'.op = o
  BY <1>1, Showing DEF AttachTracking, Status
<1>3. /\ fetch' \in [Op -> [1..Slots -> Status \cup {"free", "asked", "pruned"}]]
      /\ \A p \in Op \ {o} : fetch'[p] = fetch[p]
      /\ Awaited(o)'
  BY <1>1, TrackStep DEF AttachTracking
<1>4. /\ tracking' = [tracking EXCEPT ![o] = "first"] /\ tracking[o] = "idle" /\ server[o] # "unborn"
      /\ UNCHANGED <<server, pollTimer, missing, eventSource, wire, linger, mounted, losses>>
  BY DEF AttachTracking
<1>5. TrackingTypeOK' /\ tracking'[o] = "first" /\ \A p \in Op \ {o} : tracking'[p] = tracking[p]
  BY <1>1, <1>2, <1>3, <1>4
<1>6. ShownIsLetGo'
  <2>1. CASE shown'.op = o
    BY <2>1, <1>5 DEF ShownIsLetGo, Followed
  <2>2. CASE shown' = shown /\ shown.op # o
    <3>1. shown.op \in Op \cup {0}
      BY <1>1
    <3> QED BY <2>2, <3>1, <1>4, <1>5 DEF TrackingInv, ShownIsLetGo, Followed
  <2> QED BY <1>2, <2>1, <2>2
<1>7. StreamInv(o)'
  BY <1>1, <1>4, <1>5 DEF StreamInv
<1> QED BY <1>3, <1>4, <1>5, <1>6, <1>7, OneOperation

LEMMA AnswerStep ==
    ASSUME TrackingInv, NEW o \in Op, NEW k \in 1..Slots, AnswerFetch(o, k)
    PROVE  TrackingInv'
<1> USE DEF TrackingTypeOK
<1>1. TrackingTypeOK /\ StreamInv(o)
  BY DEF TrackingInv
<1>2. /\ fetch' = [fetch EXCEPT ![o] = [fetch[o] EXCEPT ![k] = server[o]]]
      /\ fetch[o][k] = "asked"
      /\ UNCHANGED <<server, shown, tracking, pollTimer, missing, eventSource, wire, linger, mounted,
                     losses>>
  BY DEF AnswerFetch
<1>3. server[o] \in Status \cup {"pruned"}
  BY <1>1, <1>2 DEF StreamInv, Awaited
<1>4. fetch'[o] = [fetch[o] EXCEPT ![k] = server[o]]
  BY <1>1, <1>2
<1> fetch[o] \in [1..Slots -> Status \cup {"free", "asked", "pruned"}]
  BY <1>1
<1>5. /\ fetch'[o] \in [1..Slots -> Status \cup {"free", "asked", "pruned"}]
      /\ fetch'[o][k] = server[o]
  BY <1>3, <1>4
<1>6. /\ fetch' \in [Op -> [1..Slots -> Status \cup {"free", "asked", "pruned"}]]
      /\ \A p \in Op \ {o} : fetch'[p] = fetch[p]
  BY <1>1, <1>2, <1>5
<1>7. Awaited(o)' /\ Awaited(o)
  BY <1>2, <1>3, <1>5 DEF Awaited, Status, Ended
<1>8. TrackingTypeOK' /\ ShownIsLetGo'
  BY <1>1, <1>2, <1>6 DEF TrackingInv, ShownIsLetGo, Followed
<1>9. StreamInv(o)'
  BY <1>1, <1>2, <1>7 DEF StreamInv
<1> QED BY <1>2, <1>6, <1>7, <1>8, <1>9, OneOperation

\* A fetch that ends gives its slot back; its operation is not one that was never attached.
LEMMA FreeStep ==
    ASSUME TrackingInv, NEW o \in Op, NEW k \in 1..Slots, fetch[o][k] # "free",
           fetch' = [fetch EXCEPT ![o][k] = "free"]
    PROVE  /\ fetch' \in [Op -> [1..Slots -> Status \cup {"free", "asked", "pruned"}]]
           /\ \A p \in Op \ {o} : fetch'[p] = fetch[p]
           /\ Awaited(o) /\ tracking[o] # "idle" /\ server[o] # "unborn"
<1>1. TrackingTypeOK /\ StreamInv(o)
  BY DEF TrackingInv
<1>2. fetch[o] \in [1..Slots -> Status \cup {"free", "asked", "pruned"}]
  BY <1>1 DEF TrackingTypeOK
<1>3. fetch' = [fetch EXCEPT ![o] = [fetch[o] EXCEPT ![k] = "free"]]
  OBVIOUS
<1>4. [fetch[o] EXCEPT ![k] = "free"] \in [1..Slots -> Status \cup {"free", "asked", "pruned"}]
  BY <1>2
<1>5. Awaited(o)
  BY DEF Awaited
<1> QED BY <1>1, <1>3, <1>4, <1>5 DEF TrackingTypeOK, StreamInv

\* What comes back to an operation that is let go of changes nothing but its slot and count.
LEMMA LetGoStep ==
    ASSUME TrackingInv, NEW o \in Op, tracking[o] = "stopped", RestTyped',
           UNCHANGED <<server, shown, tracking, pollTimer, eventSource, wire, linger>>,
           \A p \in Op \ {o} : fetch'[p] = fetch[p]
    PROVE  TrackingInv'
<1>1. TrackingTypeOK /\ StreamInv(o) /\ ShownIsLetGo
  BY DEF TrackingInv
<1>2. TrackingTypeOK'
  BY <1>1 DEF TrackingTypeOK, RestTyped
<1>3. StreamInv(o)' /\ ~Followed(o)'
  BY <1>1 DEF StreamInv, Followed
<1>4. ShownIsLetGo'
  BY <1>1 DEF ShownIsLetGo, Followed
<1> QED BY <1>2, <1>3, <1>4, OneOperation

LEMMA FollowStep ==
    ASSUME TrackingInv, NEW o \in Op, NEW k \in 1..Slots, ReceiveSnapshot(o, k)
    PROVE  TrackingInv'
<1>1. TrackingTypeOK
  BY DEF TrackingInv
<1>2. /\ fetch[o][k] \in Status \cup {"pruned"} /\ fetch' = [fetch EXCEPT ![o][k] = "free"]
      /\ UNCHANGED <<server, mounted, losses>>
  BY DEF ReceiveSnapshot
<1>3. /\ fetch' \in [Op -> [1..Slots -> Status \cup {"free", "asked", "pruned"}]]
      /\ \A p \in Op \ {o} : fetch'[p] = fetch[p]
      /\ tracking[o] # "idle" /\ server[o] # "unborn"
  BY <1>2, FreeStep DEF Status, Ended
<1>4. tracking[o] # "stopped" => Followed(o)
  BY <1>1, <1>3 DEF Followed, TrackingTypeOK
<1>5. CASE fetch[o][k] = "pruned"
  <2>1. CountMissing(o)
    BY <1>5 DEF ReceiveSnapshot
  <2>2. missing[o] + 1 \in Nat
    BY <1>1 DEF TrackingTypeOK
  <2>3. missing' \in [Op -> Nat] /\ shown' = shown
    BY <1>1, <2>1, <2>2 DEF CountMissing, TrackingTypeOK
  <2>4. RestTyped'
    BY <1>1, <1>2, <1>3, <2>3 DEF RestTyped, TrackingTypeOK
  <2>5. CASE missing[o] + 1 >= MissingLimit
    BY <1>2, <1>3, <2>1, <2>3, <2>4, <2>5, StopStep DEF CountMissing
  <2>6. CASE ~(missing[o] + 1 >= MissingLimit) /\ tracking[o] # "stopped"
    BY <1>2, <1>3, <1>4, <2>1, <2>3, <2>4, <2>6, GoOnStep DEF CountMissing
  <2>7. CASE ~(missing[o] + 1 >= MissingLimit) /\ tracking[o] = "stopped"
    BY <1>2, <1>3, <2>1, <2>3, <2>4, <2>7, LetGoStep DEF CountMissing
  <2> QED BY <2>5, <2>6, <2>7
<1>6. CASE fetch[o][k] # "pruned"
  <2> DEFINE s == fetch[o][k]
  <2>1. ApplyStatus(o, s) /\ s \in Status
    BY <1>2, <1>6 DEF ReceiveSnapshot
  <2> HIDE DEF s
  <2>2. CASE tracking[o] = "stopped"
    <3>1. UNCHANGED <<shown, tracking, pollTimer, missing, eventSource, wire, linger>>
      BY <2>1, <2>2 DEF ApplyStatus
    <3>2. RestTyped'
      BY <1>1, <1>2, <1>3, <3>1 DEF RestTyped, TrackingTypeOK
    <3> QED BY <1>2, <1>3, <2>2, <3>1, <3>2, LetGoStep
  <2>3. CASE tracking[o] # "stopped"
    <3>1. Show(o, s) /\ missing' = [missing EXCEPT ![o] = 0]
      BY <2>1, <2>3 DEF ApplyStatus
    <3>2. /\ shown' \in [op : Op \cup {0}, status : Status]
          /\ shown' = shown \/ shown'.op = o
      BY <1>1, <2>1, <3>1, Showing
    <3>3. RestTyped'
      BY <1>1, <1>2, <1>3, <3>1, <3>2 DEF RestTyped, TrackingTypeOK
    <3>4. CASE s \in Ended
      BY <1>2, <1>3, <2>1, <2>3, <3>2, <3>3, <3>4, StopStep DEF ApplyStatus
    <3>5. CASE s \notin Ended
      BY <1>2, <1>3, <1>4, <2>1, <2>3, <3>2, <3>3, <3>5, GoOnStep DEF ApplyStatus
    <3> QED BY <3>4, <3>5
  <2> QED BY <2>2, <2>3
<1> QED BY <1>5, <1>6

LEMMA FetchFailsStep ==
    ASSUME OperationTrackingAssumption,
           TrackingInv, NEW o \in Op, NEW k \in 1..Slots, FetchFails(o, k)
    PROVE  TrackingInv'
<1>1. TrackingTypeOK
  BY DEF TrackingInv
<1>2. /\ fetch[o][k] # "free" /\ fetch' = [fetch EXCEPT ![o][k] = "free"]
      /\ UNCHANGED <<server, shown, missing, mounted>> /\ losses' \in 0..MaxLosses
  BY <1>1 DEF FetchFails, TrackingTypeOK, OperationTrackingAssumption
<1>3. /\ fetch' \in [Op -> [1..Slots -> Status \cup {"free", "asked", "pruned"}]]
      /\ \A p \in Op \ {o} : fetch'[p] = fetch[p]
      /\ tracking[o] # "idle"
  BY <1>2, FreeStep
<1>4. RestTyped'
  BY <1>1, <1>2, <1>3 DEF RestTyped, TrackingTypeOK
<1>5. CASE tracking[o] = "stopped"
  BY <1>2, <1>3, <1>4, <1>5, LetGoStep DEF FetchFails
<1>6. CASE tracking[o] # "stopped"
  <2>1. Followed(o)
    BY <1>1, <1>3, <1>6 DEF Followed, TrackingTypeOK
  <2> QED BY <1>2, <1>3, <1>4, <1>6, <2>1, GoOnStep DEF FetchFails
<1> QED BY <1>5, <1>6

LEMMA PollStep ==
    ASSUME TrackingInv, NEW o \in Op, Poll(o)
    PROVE  TrackingInv'
<1>1. TrackingTypeOK /\ StreamInv(o) /\ ShownIsLetGo
  BY DEF TrackingInv
<1>2. /\ pollTimer[o] /\ pollTimer' = [pollTimer EXCEPT ![o] = FALSE]
      /\ UNCHANGED <<server, shown, tracking, missing, eventSource, wire, linger, mounted, losses>>
  BY DEF Poll
<1>3. /\ fetch' \in [Op -> [1..Slots -> Status \cup {"free", "asked", "pruned"}]]
      /\ \A p \in Op \ {o} : fetch'[p] = fetch[p]
      /\ Awaited(o)'
  BY <1>1, TrackStep DEF Poll
<1>4. /\ pollTimer' \in [Op -> BOOLEAN] /\ ~pollTimer'[o]
      /\ \A p \in Op \ {o} : pollTimer'[p] = pollTimer[p]
  BY <1>1, <1>2 DEF TrackingTypeOK
<1>5. TrackingTypeOK'
  BY <1>1, <1>2, <1>3, <1>4 DEF TrackingTypeOK
<1>6. ShownIsLetGo'
  BY <1>1, <1>2 DEF ShownIsLetGo, Followed
<1>7. StreamInv(o)'
  BY <1>1, <1>2, <1>4 DEF StreamInv
<1> QED BY <1>2, <1>3, <1>4, <1>5, <1>6, <1>7, OneOperation

LEMMA StreamConnectsStep ==
    ASSUME TrackingInv, NEW o \in Op, StreamConnects(o)
    PROVE  TrackingInv'
<1>1. TrackingTypeOK /\ StreamInv(o) /\ ShownIsLetGo
  BY DEF TrackingInv
<1>2. /\ eventSource[o] = "connecting"
      /\ UNCHANGED <<server, shown, tracking, pollTimer, missing, linger, mounted, losses>>
  BY DEF StreamConnects
<1>3. tracking[o] = "on" /\ server[o] \in Status \cup {"pruned"} /\ wire[o] = <<>>
  BY <1>1, <1>2 DEF StreamInv, TrackingTypeOK
<1>4. ShownIsLetGo'
  BY <1>1, <1>2 DEF ShownIsLetGo, Followed
<1>5. CASE server[o] = "pruned"
  <2>1. Sync(o) /\ eventSource' = [eventSource EXCEPT ![o] = "refused"] /\ UNCHANGED wire
    BY <1>5 DEF StreamConnects
  <2>2. /\ fetch' \in [Op -> [1..Slots -> Status \cup {"free", "asked", "pruned"}]]
        /\ \A p \in Op \ {o} : fetch'[p] = fetch[p]
        /\ Awaited(o)'
    BY <1>1, <2>1, TrackStep
  <2>3. TrackingTypeOK'
    BY <1>1, <1>2, <2>1, <2>2 DEF TrackingTypeOK
  <2>4. /\ eventSource'[o] = "refused"
        /\ \A p \in Op \ {o} : eventSource'[p] = eventSource[p]
    BY <1>1, <2>1 DEF TrackingTypeOK
  <2>5. StreamInv(o)'
    BY <1>1, <1>2, <1>3, <2>1, <2>4 DEF StreamInv
  <2> QED BY <1>2, <1>4, <2>1, <2>2, <2>3, <2>4, <2>5, OneOperation
<1>6. CASE server[o] # "pruned"
  <2>1. /\ eventSource' = [eventSource EXCEPT ![o] = "open"]
        /\ wire' = [wire EXCEPT ![o] = <<server[o]>>] /\ UNCHANGED fetch
    BY <1>6 DEF StreamConnects
  <2>2. <<server[o]>> \in Seq(Status)
    BY <1>3, <1>6
  <2>3. TrackingTypeOK'
    BY <1>1, <1>2, <2>1, <2>2 DEF TrackingTypeOK
  <2>4. /\ eventSource'[o] = "open"
        /\ \A p \in Op \ {o} : eventSource'[p] = eventSource[p] /\ wire'[p] = wire[p]
    BY <1>1, <2>1 DEF TrackingTypeOK
  <2>5. StreamInv(o)'
    BY <1>1, <1>2, <1>3, <2>1, <2>4 DEF StreamInv, Awaited
  <2>6. Followed(o)' => Awaited(o)' \/ pollTimer'[o]
    BY <1>2, <2>1 DEF TrackingInv, FollowedIsPolled, Followed, Awaited
  <2> QED BY <1>2, <1>4, <2>1, <2>3, <2>4, <2>5, <2>6, OneOperation
<1> QED BY <1>5, <1>6

LEMMA ReceiveEventStep ==
    ASSUME TrackingInv, NEW o \in Op, ReceiveEvent(o)
    PROVE  TrackingInv'
<1>1. TrackingTypeOK /\ StreamInv(o)
  BY DEF TrackingInv
<1>2. wire[o] # <<>> /\ wire[o] \in Seq(Status)
  BY <1>1 DEF ReceiveEvent, TrackingTypeOK
<1>3. Head(wire[o]) \in Status /\ Tail(wire[o]) \in Seq(Status)
  BY <1>2, HeadTailProperties
<1>4. /\ UNCHANGED <<server, fetch, missing, mounted, losses>> /\ Show(o, Head(wire[o]))
  BY DEF ReceiveEvent
<1>5. /\ shown' \in [op : Op \cup {0}, status : Status]
      /\ shown' = shown \/ shown'.op = o
  BY <1>1, <1>3, <1>4, Showing
<1>6. /\ eventSource[o] = "open" /\ tracking[o] = "on" /\ server[o] # "unborn"
  BY <1>1, <1>2 DEF StreamInv
<1>7. CASE Head(wire[o]) \in Ended
  <2>1. RestTyped'
    BY <1>1, <1>4, <1>5 DEF RestTyped, TrackingTypeOK
  <2> QED BY <1>4, <1>5, <1>6, <1>7, <2>1, StopStep DEF ReceiveEvent
<1>8. CASE Head(wire[o]) \notin Ended
  <2>1. /\ wire' = [wire EXCEPT ![o] = Tail(@)]
        /\ UNCHANGED <<tracking, pollTimer, eventSource, linger>>
    BY <1>8 DEF ReceiveEvent
  <2>2. TrackingTypeOK'
    BY <1>1, <1>3, <1>4, <1>5, <2>1 DEF TrackingTypeOK
  <2>3. ShownIsLetGo'
    <3>1. CASE shown'.op = o
      BY <3>1, <1>6, <2>1 DEF ShownIsLetGo, Followed
    <3>2. CASE shown' = shown
      BY <3>2, <2>1 DEF TrackingInv, ShownIsLetGo, Followed
    <3> QED BY <1>5, <3>1, <3>2
  <2>4. StreamInv(o)' /\ \A p \in Op \ {o} : wire'[p] = wire[p]
    BY <1>1, <1>4, <1>6, <2>1 DEF StreamInv, Awaited, TrackingTypeOK
  <2>5. Followed(o)' => Awaited(o)' \/ pollTimer'[o]
    BY <1>4, <2>1 DEF TrackingInv, FollowedIsPolled, Followed, Awaited
  <2> QED BY <1>4, <2>1, <2>2, <2>3, <2>4, <2>5, OneOperation
<1> QED BY <1>7, <1>8

LEMMA BreakStep ==
    ASSUME OperationTrackingAssumption, TrackingInv, NEW o \in Op, Break(o)
    PROVE  TrackingInv'
<1>1. TrackingTypeOK /\ StreamInv(o) /\ ShownIsLetGo
  BY DEF TrackingInv
<1>2. /\ eventSource[o] = "open" /\ eventSource' = [eventSource EXCEPT ![o] = "connecting"]
      /\ wire' = [wire EXCEPT ![o] = <<>>]
      /\ UNCHANGED <<server, shown, tracking, pollTimer, missing, linger, mounted>>
  BY DEF Break
<1>3. losses' \in 0..MaxLosses
  BY <1>1 DEF Break, TrackingTypeOK, OperationTrackingAssumption
<1>4. /\ fetch' \in [Op -> [1..Slots -> Status \cup {"free", "asked", "pruned"}]]
      /\ \A p \in Op \ {o} : fetch'[p] = fetch[p]
      /\ Awaited(o)'
  BY <1>1, TrackStep DEF Break
<1>5. TrackingTypeOK'
  BY <1>1, <1>2, <1>3, <1>4, EmptySeq DEF TrackingTypeOK
<1>6. /\ eventSource'[o] = "connecting" /\ wire'[o] = <<>> /\ tracking[o] = "on"
      /\ \A p \in Op \ {o} : eventSource'[p] = eventSource[p] /\ wire'[p] = wire[p]
  BY <1>1, <1>2 DEF TrackingTypeOK, StreamInv
<1>7. ShownIsLetGo'
  BY <1>1, <1>2 DEF ShownIsLetGo, Followed
<1>8. StreamInv(o)'
  BY <1>1, <1>2, <1>6 DEF StreamInv
<1> QED BY <1>2, <1>4, <1>5, <1>6, <1>7, <1>8, OneOperation

LEMMA ClearStep ==
    ASSUME TrackingInv, NEW o \in Op, Clear(o)
    PROVE  TrackingInv'
<1>1. TrackingTypeOK /\ StreamInv(o) /\ ShownIsLetGo
  BY DEF TrackingInv
<1>2. /\ linger' = [linger EXCEPT ![o] = FALSE] /\ shown' = IF shown.op = o THEN NothingShown ELSE shown
      /\ UNCHANGED <<server, tracking, fetch, pollTimer, missing, eventSource, wire, mounted, losses>>
  BY DEF Clear
<1>3. TrackingTypeOK'
  BY <1>1, <1>2 DEF TrackingTypeOK, NothingShown, Status
<1>4. ShownIsLetGo'
  <2>1. CASE shown.op = o
    BY <1>2, <2>1 DEF ShownIsLetGo, NothingShown
  <2>2. CASE shown.op # o
    <3>1. shown.op \in Op \cup {0} /\ shown' = shown
      BY <1>1, <1>2, <2>2 DEF TrackingTypeOK
    <3> QED BY <1>1, <1>2, <2>2, <3>1 DEF ShownIsLetGo, Followed, TrackingTypeOK
  <2> QED BY <2>1, <2>2
<1>5. \A p \in Op : StreamInv(p)'
  BY <1>2 DEF TrackingInv, StreamInv, Awaited
<1>6. FollowedIsPolled'
  BY <1>2 DEF TrackingInv, FollowedIsPolled, Followed, Awaited
<1> QED BY <1>3, <1>4, <1>5, <1>6 DEF TrackingInv

\* Leaving the page: what has a stream is let go of, and what is waiting for its first answer
\* is still awaited.
LEMMA UnmountStep == ASSUME TrackingInv, Unmount PROVE TrackingInv'
<1>1. TrackingTypeOK
  BY DEF TrackingInv
<1>2. /\ mounted' = FALSE /\ shown' = NothingShown
      /\ tracking' = [o \in Op |-> IF eventSource[o] # "none" THEN "stopped" ELSE tracking[o]]
      /\ pollTimer' = [o \in Op |-> FALSE]
      /\ eventSource' = [o \in Op |-> "none"] /\ wire' = [o \in Op |-> <<>>]
      /\ UNCHANGED <<server, fetch, missing, linger, losses>>
  BY DEF Unmount
<1>3. tracking' \in [Op -> {"idle", "first", "on", "stopped"}]
  BY <1>1, <1>2 DEF TrackingTypeOK
<1>4. TrackingTypeOK'
  BY <1>1, <1>2, <1>3, EmptySeq DEF TrackingTypeOK, NothingShown, Status
<1>5. ASSUME NEW o \in Op PROVE StreamInv(o)' /\ (Followed(o)' => Awaited(o)')
  <2>1. StreamInv(o) /\ (Followed(o) => Awaited(o) \/ pollTimer[o])
    BY DEF TrackingInv, FollowedIsPolled
  <2>2. /\ tracking'[o] = IF eventSource[o] # "none" THEN "stopped" ELSE tracking[o]
        /\ ~pollTimer'[o] /\ eventSource'[o] = "none" /\ wire'[o] = <<>>
    BY <1>2
  <2>3. Awaited(o)' = Awaited(o)
    BY <1>2 DEF Awaited
  <2> QED BY <1>2, <2>1, <2>2, <2>3 DEF StreamInv, Followed
<1>6. ShownIsLetGo'
  BY <1>2 DEF ShownIsLetGo, NothingShown
<1> QED BY <1>4, <1>5, <1>6 DEF TrackingInv, FollowedIsPolled

LEMMA TrackingStep ==
    OperationTrackingAssumption /\ TrackingInv /\ [TrackingNext]_trackingVars => TrackingInv'
<1> SUFFICES ASSUME OperationTrackingAssumption, TrackingInv, [TrackingNext]_trackingVars
             PROVE  TrackingInv'
  OBVIOUS
<1>1. ASSUME NEW o \in Op, Admit(o) \/ Patch(o) \/ PruneRow(o) PROVE TrackingInv'
  BY <1>1, ServerStep
<1>2. ASSUME NEW o \in Op, AttachTracking(o) PROVE TrackingInv'
  BY <1>2, AttachStep
<1>3. ASSUME NEW o \in Op, Poll(o) PROVE TrackingInv'
  BY <1>3, PollStep
<1>4. ASSUME NEW o \in Op, StreamConnects(o) PROVE TrackingInv'
  BY <1>4, StreamConnectsStep
<1>5. ASSUME NEW o \in Op, ReceiveEvent(o) PROVE TrackingInv'
  BY <1>5, ReceiveEventStep
<1>6. ASSUME NEW o \in Op, Break(o) PROVE TrackingInv'
  BY <1>6, BreakStep
<1>7. ASSUME NEW o \in Op, Clear(o) PROVE TrackingInv'
  BY <1>7, ClearStep
<1>8. ASSUME NEW o \in Op, NEW k \in 1..Slots, AnswerFetch(o, k) PROVE TrackingInv'
  BY <1>8, AnswerStep
<1>9. ASSUME NEW o \in Op, NEW k \in 1..Slots, ReceiveSnapshot(o, k) PROVE TrackingInv'
  BY <1>9, FollowStep
<1>10. ASSUME NEW o \in Op, NEW k \in 1..Slots, FetchFails(o, k) PROVE TrackingInv'
  BY <1>10, FetchFailsStep
<1>11. CASE Unmount
  BY <1>11, UnmountStep
<1>12. CASE UNCHANGED trackingVars
  BY <1>12 DEF trackingVars, TrackingInv, TrackingTypeOK, FollowedIsPolled, ShownIsLetGo,
               StreamInv, Followed, Awaited
<1> QED BY <1>1, <1>2, <1>3, <1>4, <1>5, <1>6, <1>7, <1>8, <1>9, <1>10, <1>11, <1>12
        DEF TrackingNext, Responds

\* The hook's variables keep their types, for any operations, fetches and losses.
THEOREM TrackingTypeCorrect ==
    OperationTrackingAssumption => (TrackingSpec => []TrackingTypeOK)
<1> SUFFICES ASSUME OperationTrackingAssumption PROVE TrackingSpec => []TrackingTypeOK
  OBVIOUS
<1>1. TrackingInit => TrackingInv
  BY TrackingInitInv
<1>2. TrackingInv /\ [TrackingNext]_trackingVars => TrackingInv'
  BY TrackingStep
<1>3. TrackingInv => TrackingTypeOK
  BY DEF TrackingInv
<1> QED BY <1>1, <1>2, <1>3, PTL DEF TrackingSpec

\* Whatever the order of answers, failures and events (useStoreActions.ts), an operation that
\* is followed has a fetch under way or the timer of the next one, and one that is on the
\* screen is followed or has the timer that takes it away: the safety behind TrackingEnds.
THEOREM TrackingGoesOn ==
    OperationTrackingAssumption => (TrackingSpec => [](FollowedIsPolled /\ ShownIsLetGo))
<1> SUFFICES ASSUME OperationTrackingAssumption
             PROVE  TrackingSpec => [](FollowedIsPolled /\ ShownIsLetGo)
  OBVIOUS
<1>1. TrackingInit => TrackingInv
  BY TrackingInitInv
<1>2. TrackingInv /\ [TrackingNext]_trackingVars => TrackingInv'
  BY TrackingStep
<1>3. TrackingInv => FollowedIsPolled /\ ShownIsLetGo
  BY DEF TrackingInv
<1> QED BY <1>1, <1>2, <1>3, PTL DEF TrackingSpec

-------------------------------------------------------------------------------
(* ServerRecovery. *)

One(b) == IF b THEN 1 ELSE 0

\* The stream is closed and the loop of useRebootRecovery runs exactly during a power action.
LoopFollowsAction ==
    /\ action # "none" <=> loop # "off"
    /\ action # "none" <=> stream = "off"

\* A desktop that has left its normal screen still does something that may bring it back,
\* unless a power action began amid a recovery.
DesktopGoesOn ==
    ~crossed =>
       /\ phase = "lost" => probe # "none" \/ retry = "probe"
       /\ phase = "restored" => retry \in {"back", "reload"}

\* What a probe has found the desktop to be, and that nothing starts a second one amid it.
ProbingInv ==
    /\ retry \in {"back", "reload"} => phase = "restored"
    /\ ~crossed =>
         /\ phase = "lost" /\ probe # "none" => probing
         /\ phase = "restored" => probing /\ probe = "none"
         /\ probing => phase # "online" \/ probe = "health"
         /\ probe \in {"auth", "metrics", "signed out"} => phase = "lost"
         /\ action # "none" => phase = "online" /\ ~probing /\ retry = "none"

\* Every outage makes at most one process, and every power action at most one reload.
ReloadsInv ==
    /\ process <= outages
    /\ reloads + One(finishing) + One(action # "none") <= actions

\* The type invariant in three parts: what the code branches on, flags, and what is counted.
StatesOK ==
    /\ stream \in {"open", "retrying", "off"} /\ phase \in {"online", "lost", "restored"}
    /\ probe \in {"none", "health", "auth", "metrics", "signed out"}
    /\ retry \in {"none", "probe", "back", "reload"}
    /\ action \in {"none", "update", "other"} /\ loop \in {"off", "timer", "health", "auth"}

FlagsOK ==
    /\ up \in BOOLEAN /\ probing \in BOOLEAN /\ observed \in BOOLEAN /\ elapsed \in BOOLEAN
    /\ stale \in BOOLEAN /\ finishing \in BOOLEAN /\ crossed \in BOOLEAN

CountsOK ==
    /\ process \in 0..MaxOutages /\ outages \in 0..MaxOutages
    /\ metrics \in 0..MaxOutages \cup {Unseen} /\ before \in 0..MaxOutages \cup {Unseen}
    /\ actions \in 0..MaxActions /\ strays \in 0..MaxStrays /\ reloads \in 0..MaxActions

ControlInv ==
    StatesOK /\ FlagsOK /\ LoopFollowsAction /\ DesktopGoesOn /\ ProbingInv
CountsInv == CountsOK /\ ReloadsInv

TabOK == tab \in {"desktop", "error"}

RecoveryInv == ControlInv /\ CountsInv /\ TabOK

LEMMA RecoveryInitInv == ServerRecoveryAssumption /\ RecoveryInit => RecoveryInv
<1> SUFFICES ASSUME ServerRecoveryAssumption, RecoveryInit PROVE RecoveryInv
  OBVIOUS
<1>1. ControlInv
  BY DEF RecoveryInit, ControlInv, StatesOK, FlagsOK, LoopFollowsAction, DesktopGoesOn, ProbingInv
<1>2. CountsInv
  BY DEF ServerRecoveryAssumption, RecoveryInit, CountsInv, CountsOK, ReloadsInv, One
<1>3. TabOK
  BY DEF RecoveryInit, TabOK
<1> QED BY <1>1, <1>2, <1>3 DEF RecoveryInv

(* The steps of useServerConnection, of what asks it for a probe, and of useRebootRecovery. *)

LEMMA HealthControl == ASSUME ControlInv, HealthAnswers PROVE ControlInv'
<1>1. StatesOK /\ FlagsOK /\ LoopFollowsAction /\ DesktopGoesOn /\ ProbingInv
  BY DEF ControlInv
<1>2. UNCHANGED <<up, stream, action, loop, observed, elapsed, stale, finishing, crossed>>
  BY DEF HealthAnswers, ConnectionStep, recoveryVars, historyVars
<1> USE <1>1, <1>2 DEF HealthAnswers, Healthy, Unhealthy, Reset, enabled
<1>3. StatesOK' /\ LoopFollowsAction'
  BY DEF StatesOK, LoopFollowsAction
<1>4. FlagsOK'
  BY DEF FlagsOK
<1>5. DesktopGoesOn' /\ ProbingInv'
  BY DEF StatesOK, LoopFollowsAction, DesktopGoesOn, ProbingInv
<1> QED BY <1>3, <1>4, <1>5 DEF ControlInv

LEMMA AuthControl == ASSUME ControlInv, AuthAnswers PROVE ControlInv'
<1>1. StatesOK /\ FlagsOK /\ LoopFollowsAction /\ DesktopGoesOn /\ ProbingInv
  BY DEF ControlInv
<1>2. UNCHANGED <<up, stream, action, loop, observed, elapsed, stale, finishing, crossed>>
  BY DEF AuthAnswers, ConnectionStep, recoveryVars, historyVars
<1> USE <1>1, <1>2 DEF AuthAnswers, Unhealthy, enabled
<1>3. StatesOK' /\ LoopFollowsAction'
  BY DEF StatesOK, LoopFollowsAction
<1>4. FlagsOK'
  BY DEF FlagsOK
<1>5. DesktopGoesOn' /\ ProbingInv'
  BY DEF StatesOK, LoopFollowsAction, DesktopGoesOn, ProbingInv
<1> QED BY <1>3, <1>4, <1>5 DEF ControlInv

LEMMA RecoverControl == ASSUME ControlInv, Recover PROVE ControlInv'
<1>1. StatesOK /\ FlagsOK /\ LoopFollowsAction /\ DesktopGoesOn /\ ProbingInv
  BY DEF ControlInv
<1>2. UNCHANGED <<up, stream, action, loop, observed, elapsed, stale, finishing, crossed>>
  BY DEF Recover, ConnectionStep, recoveryVars, historyVars
<1> USE <1>1, <1>2 DEF Recover
<1>3. StatesOK' /\ LoopFollowsAction'
  BY DEF StatesOK, LoopFollowsAction
<1>4. FlagsOK'
  BY DEF FlagsOK
<1>5. DesktopGoesOn' /\ ProbingInv'
  BY DEF StatesOK, LoopFollowsAction, DesktopGoesOn, ProbingInv
<1> QED BY <1>3, <1>4, <1>5 DEF ControlInv

LEMMA AgainControl == ASSUME ControlInv, ProbeAgain PROVE ControlInv'
<1>1. StatesOK /\ FlagsOK /\ LoopFollowsAction /\ DesktopGoesOn /\ ProbingInv
  BY DEF ControlInv
<1>2. UNCHANGED <<up, stream, action, loop, observed, elapsed, stale, finishing, crossed>>
  BY DEF ProbeAgain, ConnectionStep, recoveryVars, historyVars
<1> USE <1>1, <1>2 DEF ProbeAgain, Probe, enabled
<1>3. StatesOK' /\ LoopFollowsAction'
  BY DEF StatesOK, LoopFollowsAction
<1>4. FlagsOK'
  BY DEF FlagsOK
<1>5. DesktopGoesOn' /\ ProbingInv'
  BY DEF StatesOK, LoopFollowsAction, DesktopGoesOn, ProbingInv
<1> QED BY <1>3, <1>4, <1>5 DEF ControlInv

LEMMA BackControl == ASSUME ControlInv, GoBack PROVE ControlInv'
<1>1. StatesOK /\ FlagsOK /\ LoopFollowsAction /\ DesktopGoesOn /\ ProbingInv
  BY DEF ControlInv
<1>2. UNCHANGED <<up, stream, action, loop, observed, elapsed, stale, finishing, crossed>>
  BY DEF GoBack, ConnectionStep, recoveryVars, historyVars
<1> USE <1>1, <1>2 DEF GoBack, Reset
<1>3. StatesOK' /\ LoopFollowsAction'
  BY DEF StatesOK, LoopFollowsAction
<1>4. FlagsOK'
  BY DEF FlagsOK
<1>5. DesktopGoesOn' /\ ProbingInv'
  BY DEF StatesOK, LoopFollowsAction, DesktopGoesOn, ProbingInv
<1> QED BY <1>3, <1>4, <1>5 DEF ControlInv

\* What asks for a probe: errors of the stream, the browser's events and the button.
LEMMA AskControl ==
    ASSUME ControlInv, up' \in BOOLEAN, stream' \in {"open", "retrying", "off"},
           stream' = "off" <=> stream = "off",
           UNCHANGED <<phase, action, loop, observed, elapsed, stale, finishing, crossed>>,
           (enabled /\ StartProbing) \/ ProbeIfLost \/ UNCHANGED <<probing, retry, probe>>
    PROVE  ControlInv'
<1>1. StatesOK /\ FlagsOK /\ LoopFollowsAction /\ DesktopGoesOn /\ ProbingInv
  BY DEF ControlInv
<1> USE <1>1 DEF StartProbing, ProbeIfLost, Probe, enabled
<1>3. StatesOK' /\ LoopFollowsAction'
  BY DEF StatesOK, LoopFollowsAction
<1>4. FlagsOK'
  BY DEF FlagsOK
<1>5. CASE UNCHANGED <<probing, retry, probe>>
  <2>1. DesktopGoesOn'
    BY <1>5 DEF DesktopGoesOn
  <2>2. ProbingInv'
    BY <1>5 DEF ProbingInv
  <2> QED BY <1>3, <1>4, <2>1, <2>2 DEF ControlInv
<1>6. CASE ProbeIfLost
  <2>1. DesktopGoesOn' /\ ProbingInv'
    BY <1>6 DEF StatesOK, LoopFollowsAction, DesktopGoesOn, ProbingInv
  <2> QED BY <1>3, <1>4, <2>1 DEF ControlInv
<1>7. CASE enabled /\ StartProbing
  <2>1. DesktopGoesOn' /\ ProbingInv'
    BY <1>7 DEF StatesOK, LoopFollowsAction, DesktopGoesOn, ProbingInv
  <2> QED BY <1>3, <1>4, <2>1 DEF ControlInv
<1> QED BY <1>5, <1>6, <1>7

LEMMA BeginControl ==
    ASSUME ControlInv, NEW what \in {"update", "other"}, BeginAction(what)
    PROVE  ControlInv'
<1>1. StatesOK /\ FlagsOK /\ LoopFollowsAction /\ DesktopGoesOn /\ ProbingInv
  BY DEF ControlInv
<1>2. UNCHANGED <<up, probe, finishing>>
  BY DEF BeginAction
<1> USE <1>1, <1>2 DEF BeginAction, Restarted, Reset
<1>3. StatesOK' /\ LoopFollowsAction'
  BY DEF StatesOK, LoopFollowsAction
<1>4. FlagsOK'
  BY DEF FlagsOK
<1>5. DesktopGoesOn' /\ ProbingInv'
  BY DEF StatesOK, LoopFollowsAction, DesktopGoesOn, ProbingInv
<1> QED BY <1>3, <1>4, <1>5 DEF ControlInv

LEMMA OtherTabControl == ASSUME ControlInv, OtherTab PROVE ControlInv'
<1>1. StatesOK /\ FlagsOK /\ LoopFollowsAction /\ DesktopGoesOn /\ ProbingInv
  BY DEF ControlInv
<1>2. UNCHANGED <<elapsed, finishing, up, phase, probing, probe, retry, crossed>>
  BY DEF OtherTab, Cleared, RecoveryStep, connectionVars
<1> USE <1>1, <1>2 DEF OtherTab, Cleared, Restarted
<1>3. StatesOK' /\ LoopFollowsAction'
  BY DEF StatesOK, LoopFollowsAction
<1>4. FlagsOK'
  BY DEF FlagsOK
<1>5. DesktopGoesOn' /\ ProbingInv'
  BY DEF StatesOK, LoopFollowsAction, DesktopGoesOn, ProbingInv
<1> QED BY <1>3, <1>4, <1>5 DEF ControlInv

LEMMA ChecksControl == ASSUME ControlInv, LoopChecks \/ TimePasses PROVE ControlInv'
<1>1. StatesOK /\ FlagsOK /\ LoopFollowsAction /\ DesktopGoesOn /\ ProbingInv
  BY DEF ControlInv
<1>2. UNCHANGED <<action, stream, observed, stale, finishing, up, phase, probing, probe, retry,
                  crossed>>
  BY DEF LoopChecks, TimePasses, RecoveryStep, connectionVars
<1> USE <1>1, <1>2 DEF LoopChecks, TimePasses
<1>3. StatesOK' /\ LoopFollowsAction'
  BY DEF StatesOK, LoopFollowsAction
<1>4. FlagsOK'
  BY DEF FlagsOK
<1>5. DesktopGoesOn' /\ ProbingInv'
  BY DEF StatesOK, LoopFollowsAction, DesktopGoesOn, ProbingInv
<1> QED BY <1>3, <1>4, <1>5 DEF ControlInv

LEMMA LoopHealthControl == ASSUME ControlInv, LoopHealth PROVE ControlInv'
<1>1. StatesOK /\ FlagsOK /\ LoopFollowsAction /\ DesktopGoesOn /\ ProbingInv
  BY DEF ControlInv
<1>2. UNCHANGED <<action, stream, elapsed, stale, finishing, up, phase, probing, probe, retry,
                  crossed>>
  BY DEF LoopHealth, RecoveryStep, connectionVars
<1> USE <1>1, <1>2 DEF LoopHealth
<1>3. StatesOK' /\ LoopFollowsAction'
  BY DEF StatesOK, LoopFollowsAction
<1>4. FlagsOK'
  BY DEF FlagsOK
<1>5. DesktopGoesOn' /\ ProbingInv'
  BY DEF StatesOK, LoopFollowsAction, DesktopGoesOn, ProbingInv
<1> QED BY <1>3, <1>4, <1>5 DEF ControlInv

LEMMA LoopAuthControl == ASSUME ControlInv, LoopAuth PROVE ControlInv'
<1>1. StatesOK /\ FlagsOK /\ LoopFollowsAction /\ DesktopGoesOn /\ ProbingInv
  BY DEF ControlInv
<1>2. UNCHANGED <<elapsed, stale, up, phase, probing, probe, retry, crossed>>
  BY DEF LoopAuth, Cleared, RecoveryStep, connectionVars
<1> USE <1>1, <1>2 DEF LoopAuth, Cleared
<1>3. StatesOK' /\ LoopFollowsAction'
  BY DEF StatesOK, LoopFollowsAction
<1>4. FlagsOK'
  BY DEF FlagsOK
<1>5. DesktopGoesOn' /\ ProbingInv'
  BY DEF StatesOK, LoopFollowsAction, DesktopGoesOn, ProbingInv
<1> QED BY <1>3, <1>4, <1>5 DEF ControlInv

LEMMA StaleControl == ASSUME ControlInv, StaleAuth PROVE ControlInv'
<1>1. StatesOK /\ FlagsOK /\ LoopFollowsAction /\ DesktopGoesOn /\ ProbingInv
  BY DEF ControlInv
<1>2. UNCHANGED <<observed, elapsed, finishing, up, phase, probing, probe, retry, crossed>>
  BY DEF StaleAuth, Cleared, RecoveryStep, connectionVars
<1> USE <1>1, <1>2 DEF StaleAuth, Cleared
<1>3. StatesOK' /\ LoopFollowsAction'
  BY DEF StatesOK, LoopFollowsAction
<1>4. FlagsOK'
  BY DEF FlagsOK
<1>5. DesktopGoesOn' /\ ProbingInv'
  BY DEF StatesOK, LoopFollowsAction, DesktopGoesOn, ProbingInv
<1> QED BY <1>3, <1>4, <1>5 DEF ControlInv

LEMMA NoReloadControl == ASSUME ControlInv, NoReload PROVE ControlInv'
<1>1. StatesOK /\ FlagsOK /\ LoopFollowsAction /\ DesktopGoesOn /\ ProbingInv
  BY DEF ControlInv
<1>2. UNCHANGED <<action, loop, stream, observed, elapsed, stale, up, phase, probing, probe,
                  retry, crossed>>
  BY DEF NoReload, RecoveryStep, connectionVars
<1> USE <1>1, <1>2 DEF NoReload
<1>3. StatesOK' /\ LoopFollowsAction'
  BY DEF StatesOK, LoopFollowsAction
<1>4. FlagsOK'
  BY DEF FlagsOK
<1>5. DesktopGoesOn' /\ ProbingInv'
  BY DEF StatesOK, LoopFollowsAction, DesktopGoesOn, ProbingInv
<1> QED BY <1>3, <1>4, <1>5 DEF ControlInv

LEMMA ReloadControl == ASSUME ControlInv, Reload PROVE ControlInv'
<1>1. StatesOK /\ FlagsOK /\ LoopFollowsAction /\ DesktopGoesOn /\ ProbingInv
  BY DEF ControlInv
<1>2. UNCHANGED <<up, action, elapsed, crossed>>
  BY DEF Reload
<1> USE <1>1, <1>2 DEF Reload, Reset
<1>3. StatesOK' /\ LoopFollowsAction'
  BY DEF StatesOK, LoopFollowsAction
<1>4. FlagsOK'
  BY DEF FlagsOK
<1>5. DesktopGoesOn' /\ ProbingInv'
  BY DEF StatesOK, LoopFollowsAction, DesktopGoesOn, ProbingInv
<1> QED BY <1>3, <1>4, <1>5 DEF ControlInv

LEMMA ControlStep == ControlInv /\ [RecoveryNext]_desktopVars => ControlInv'
<1> SUFFICES ASSUME ControlInv, [RecoveryNext]_desktopVars PROVE ControlInv'
  OBVIOUS
<1>1. StatesOK /\ FlagsOK /\ LoopFollowsAction
  BY DEF ControlInv
<1>2. CASE ProbeSteps
  BY <1>2, HealthControl, AuthControl, RecoverControl, AgainControl, BackControl DEF ProbeSteps
<1>3. CASE CheckNow
  <2>1. UNCHANGED <<up, stream>> /\ ProbeIfLost
        /\ UNCHANGED <<phase, action, loop, observed, elapsed, stale, finishing, crossed>>
    BY <1>3 DEF CheckNow, ProbeIfLost, ConnectionStep, recoveryVars, historyVars
  <2> QED BY <1>1, <2>1, AskControl DEF StatesOK, FlagsOK
<1>4. CASE StreamSteps
  <2>1. /\ UNCHANGED <<up, phase, action, loop, observed, elapsed, stale, finishing, crossed>>
        /\ stream' \in {"open", "retrying"} /\ stream # "off"
    BY <1>4 DEF StreamSteps, StreamFails, StreamOpens, StreamStep, recoveryVars, historyVars
  <2>2. enabled /\ (StartProbing \/ ProbeIfLost)
    BY <1>1, <1>4, <2>1 DEF StreamSteps, StreamFails, StreamOpens, LoopFollowsAction, enabled
  <2> QED BY <1>1, <2>1, <2>2, AskControl DEF StatesOK, FlagsOK
<1>5. CASE GoAway
  <2>1. /\ UNCHANGED <<phase, action, loop, observed, elapsed, stale, finishing, crossed, stream>>
        /\ up' = FALSE /\ ((enabled /\ StartProbing) \/ UNCHANGED <<probing, retry, probe>>)
    BY <1>5 DEF GoAway, recoveryVars, historyVars
  <2> QED BY <1>1, <2>1, AskControl DEF StatesOK
<1>6. CASE ComeBack
  <2>1. /\ UNCHANGED <<phase, action, loop, observed, elapsed, stale, finishing, crossed, stream>>
        /\ up' = TRUE /\ (ProbeIfLost \/ UNCHANGED <<probing, retry, probe>>)
    BY <1>6 DEF ComeBack, recoveryVars, historyVars
  <2> QED BY <1>1, <2>1, AskControl DEF StatesOK
<1>7. CASE Measure \/ UNCHANGED desktopVars
  <2>1. /\ UNCHANGED <<phase, action, loop, observed, elapsed, stale, finishing, crossed>>
        /\ UNCHANGED <<up, stream>> /\ UNCHANGED <<probing, retry, probe>>
    BY <1>7 DEF Measure, StreamStep, recoveryVars, historyVars, connectionVars, desktopVars
  <2> QED BY <1>1, <2>1, AskControl DEF StatesOK, FlagsOK
<1>8. ASSUME NEW what \in {"update", "other"}, BeginAction(what) PROVE ControlInv'
  BY <1>8, BeginControl
<1>9. CASE OtherTab \/ LoopSteps \/ TimerSteps \/ FinishSteps
  BY <1>9, OtherTabControl, ChecksControl, LoopHealthControl, LoopAuthControl, StaleControl,
     NoReloadControl, ReloadControl DEF LoopSteps, TimerSteps, FinishSteps
<1> QED BY <1>2, <1>3, <1>4, <1>5, <1>6, <1>7, <1>8, <1>9 DEF RecoveryNext, StraySteps

LEMMA CountsStep ==
    ASSUME ServerRecoveryAssumption, ControlInv, CountsInv, [RecoveryNext]_desktopVars
    PROVE  CountsInv'
<1> USE DEF CountsInv, CountsOK, ReloadsInv, One
<1>1. CASE ProbeSteps
  <2>1. UNCHANGED <<process, metrics, outages, actions, reloads, action, finishing>>
    BY <1>1 DEF ProbeSteps, HealthAnswers, AuthAnswers, Recover, ProbeAgain, GoBack,
                ConnectionStep, recoveryVars, historyVars
  <2>2. before' = before \/ before' = metrics
    BY <1>1 DEF ProbeSteps, HealthAnswers, AuthAnswers, Healthy, Unhealthy, Recover, ProbeAgain,
                GoBack
  <2>3. strays' = strays \/ (strays < MaxStrays /\ strays' = strays + 1)
    BY <1>1 DEF ProbeSteps, HealthAnswers, AuthAnswers, Recover, ProbeAgain, GoBack
  <2> QED BY <2>1, <2>2, <2>3 DEF ServerRecoveryAssumption
<1>2. CASE CheckNow
  BY <1>2 DEF CheckNow, ConnectionStep, recoveryVars, historyVars, ServerRecoveryAssumption
<1>3. CASE StreamSteps
  BY <1>3 DEF StreamSteps, StreamFails, StreamOpens, StreamStep, recoveryVars, historyVars, bounds
<1>4. CASE Measure
  BY <1>4 DEF Measure, StreamStep, recoveryVars, historyVars, bounds
<1>5. CASE GoAway
  BY <1>5 DEF GoAway, recoveryVars, historyVars, ServerRecoveryAssumption
<1>6. CASE ComeBack
  <2>1. /\ UNCHANGED <<metrics, before, outages, strays, actions, reloads, action, finishing>>
        /\ process' = outages \/ process' = process
    BY <1>6 DEF ComeBack, recoveryVars, historyVars, bounds
  <2> QED BY <2>1
<1>7. ASSUME NEW what \in {"update", "other"}, BeginAction(what) PROVE CountsInv'
  <2>1. /\ UNCHANGED <<process, metrics, before, outages, strays, finishing, reloads>>
        /\ action = "none" /\ actions < MaxActions /\ actions' = actions + 1
    BY <1>7 DEF BeginAction
  <2> QED BY <2>1 DEF ServerRecoveryAssumption
<1> USE DEF RecoveryStep, connectionVars
<1>8. CASE OtherTab
  BY <1>8 DEF OtherTab, Cleared, ServerRecoveryAssumption
<1>9. CASE LoopChecks \/ TimePasses \/ LoopHealth
  BY <1>9 DEF LoopChecks, TimePasses, LoopHealth
<1>10. CASE LoopAuth
  <2>1. action # "none"
    BY <1>10 DEF LoopAuth, ControlInv, LoopFollowsAction
  <2>2. /\ UNCHANGED <<process, metrics, before, outages, actions, reloads>>
        /\ strays' = strays \/ (strays < MaxStrays /\ strays' = strays + 1)
    BY <1>10 DEF LoopAuth
  <2>3. action' = "none" \/ UNCHANGED <<action, finishing>>
    BY <1>10 DEF LoopAuth, Cleared
  <2> QED BY <2>1, <2>2, <2>3 DEF ServerRecoveryAssumption
<1>11. CASE StaleAuth
  BY <1>11 DEF StaleAuth, Cleared
<1>12. CASE NoReload
  BY <1>12 DEF NoReload
<1>13. CASE Reload
  <2>1. /\ UNCHANGED <<process, outages, actions, strays, action>>
        /\ metrics' = Unseen /\ before' = Unseen /\ finishing' = FALSE
        /\ reloads' = IF finishing THEN reloads + 1 ELSE reloads
    BY <1>13 DEF Reload, bounds
  <2>2. CASE finishing
    BY <2>1, <2>2 DEF ServerRecoveryAssumption
  <2>3. CASE ~finishing
    BY <2>1, <2>3
  <2> QED BY <2>2, <2>3
<1>14. CASE UNCHANGED desktopVars
  BY <1>14 DEF desktopVars, recoveryVars, bounds, historyVars
<1> QED BY <1>1, <1>2, <1>3, <1>4, <1>5, <1>6, <1>7, <1>8, <1>9, <1>10, <1>11, <1>12, <1>13, <1>14
        DEF RecoveryNext, LoopSteps, FinishSteps, TimerSteps, StraySteps

\* Only a reload changes what the tab shows.
LEMMA TabStep == TabOK /\ [RecoveryNext]_desktopVars => TabOK'
<1> SUFFICES ASSUME TabOK, [RecoveryNext]_desktopVars PROVE TabOK'
  OBVIOUS
<1>1. CASE ProbeSteps \/ StreamSteps \/ CheckNow \/ Measure
  BY <1>1 DEF TabOK, ProbeSteps, HealthAnswers, AuthAnswers, Recover, ProbeAgain, GoBack, CheckNow, ConnectionStep,
              StreamSteps, StreamFails, StreamOpens, Measure, StreamStep
<1>2. CASE LoopSteps \/ NoReload \/ TimerSteps \/ OtherTab
  BY <1>2 DEF TabOK, LoopSteps, LoopChecks, LoopHealth, LoopAuth, StaleAuth, NoReload, TimerSteps, TimePasses,
              OtherTab, RecoveryStep
<1>3. CASE (\E what \in {"update", "other"} : BeginAction(what)) \/ GoAway \/ ComeBack \/ UNCHANGED desktopVars
  BY <1>3 DEF TabOK, BeginAction, GoAway, ComeBack, desktopVars
<1>4. CASE Reload
  BY <1>4 DEF TabOK, Reload
<1> QED BY <1>1, <1>2, <1>3, <1>4 DEF RecoveryNext, StraySteps, FinishSteps

LEMMA RecoveryStepSafe ==
    ServerRecoveryAssumption /\ RecoveryInv /\ [RecoveryNext]_desktopVars => RecoveryInv'
BY ControlStep, CountsStep, TabStep DEF RecoveryInv

\* The variables of both hooks keep their types, for any outages, actions and stray events.
THEOREM RecoveryTypeCorrect == ServerRecoveryAssumption => (RecoverySpec => []RecoveryTypeOK)
<1> SUFFICES ASSUME ServerRecoveryAssumption PROVE RecoverySpec => []RecoveryTypeOK
  OBVIOUS
<1>1. RecoveryInit => RecoveryInv
  BY RecoveryInitInv
<1>2. RecoveryInv /\ [RecoveryNext]_desktopVars => RecoveryInv'
  BY RecoveryStepSafe
<1>3. RecoveryInv => RecoveryTypeOK
  BY DEF RecoveryInv, ControlInv, CountsInv, StatesOK, FlagsOK, CountsOK, TabOK, RecoveryTypeOK
<1> QED BY <1>1, <1>2, <1>3, PTL DEF RecoverySpec

\* A desktop that has lost its server goes on probing, and one that has found it again is on
\* its way back (useServerConnection), also across power actions that do not begin amid a
\* recovery; the loop of useRebootRecovery runs exactly during one, and reloads the page at most
\* once for it.
THEOREM DesktopKeepsTrying ==
    ServerRecoveryAssumption =>
       (RecoverySpec => [](DesktopGoesOn /\ LoopFollowsAction /\ ReloadsInv))
<1> SUFFICES ASSUME ServerRecoveryAssumption
             PROVE  RecoverySpec => [](DesktopGoesOn /\ LoopFollowsAction /\ ReloadsInv)
  OBVIOUS
<1>1. RecoveryInit => RecoveryInv
  BY RecoveryInitInv
<1>2. RecoveryInv /\ [RecoveryNext]_desktopVars => RecoveryInv'
  BY RecoveryStepSafe
<1>3. RecoveryInv => DesktopGoesOn /\ LoopFollowsAction /\ ReloadsInv
  BY DEF RecoveryInv, ControlInv, CountsInv
<1> QED BY <1>1, <1>2, <1>3, PTL DEF RecoverySpec

-------------------------------------------------------------------------------
(* DesktopWindows. *)

\* A set of positions that is not empty has a greatest one.
LEMMA HasMax == ASSUME NEW n \in Nat, NEW S, S \subseteq 1..n, S # {} PROVE Max(S) \in S
<1> DEFINE T == {n - k : k \in S}
           R == OpToRel(<, Nat)
<1>1. \A k \in S : k \in 1..n /\ n - k \in Nat
  OBVIOUS
<1>2. T \subseteq Nat /\ T # {}
  BY <1>1
<1>3. IsWellFoundedOn(R, Nat)
  BY NatLessThanWellFounded
<1>4. \A u, t \in Nat : u < t => <<u, t>> \in R
  BY DEF OpToRel
<1> HIDE DEF R
<1>5. PICK t \in T : \A u \in T : ~(<<u, t>> \in R)
  <2> HIDE DEF T
  <2> QED BY <1>2, <1>3, WFMin
<1>6. PICK k \in S : t = n - k
  BY <1>5
<1>7. ASSUME NEW j \in S PROVE k >= j
  <2>1. n - j \in T /\ n - j \in Nat /\ t \in Nat
    BY <1>1, <1>2
  <2>2. ~(n - j < t)
    BY <1>4, <1>5, <2>1
  <2> QED BY <1>1, <1>6, <2>2
<1> QED BY <1>7 DEF Max

\* A window added at the end of those that are open.
LEMMA AppendWindow ==
    ASSUME NEW s \in Seq(Windows), IsInjective(s), NEW w \in Windows, w \notin ToSet(s)
    PROVE  /\ Append(s, w) \in Seq(Windows) /\ IsInjective(Append(s, w))
           /\ ToSet(Append(s, w)) = ToSet(s) \cup {w}
<1> DEFINE r == Append(s, w)
           n == Len(s)
<1>1. /\ r \in Seq(Windows) /\ Len(r) = n + 1
      /\ \A i \in 1..n : r[i] = s[i]
      /\ r[n + 1] = w
  BY AppendProperties
<1>2. n \in Nat /\ DOMAIN s = 1..n /\ DOMAIN r = 1..(n + 1)
  BY <1>1, LenProperties
<1> HIDE DEF r, n
<1>3. \A i \in 1..(n + 1) : i \in 1..n \/ i = n + 1
  BY <1>2
<1>4. \A i \in 1..n : s[i] # w
  BY <1>2 DEF ToSet
<1>5. IsInjective(r)
  BY <1>1, <1>2, <1>3, <1>4 DEF IsInjective
<1>6. ToSet(r) = ToSet(s) \cup {w}
  BY <1>1, <1>2, <1>3 DEF ToSet
<1> QED BY <1>1, <1>5, <1>6 DEF r

\* One window taken out of those that are open.
LEMMA RemoveWindow ==
    ASSUME NEW s \in Seq(Windows), IsInjective(s), NEW k \in DOMAIN s
    PROVE  /\ RemoveAt(s, k) \in Seq(Windows) /\ IsInjective(RemoveAt(s, k))
           /\ ToSet(RemoveAt(s, k)) = ToSet(s) \ {s[k]}
<1> DEFINE n == Len(s)
           a == SubSeq(s, 1, k - 1)
           b == SubSeq(s, k + 1, n)
           r == RemoveAt(s, k)
<1>1. n \in Nat /\ DOMAIN s = 1..n /\ k \in 1..n /\ \A i \in 1..n : s[i] \in Windows
  BY LenProperties, ElementOfSeq
<1>2. a \in Seq(Windows) /\ Len(a) = k - 1 /\ \A i \in 1..(k - 1) : a[i] = s[i]
  <2>1. \A i \in 1..(k - 1) : s[i] \in Windows
    BY <1>1
  <2> QED BY <1>1, <2>1, SubSeqProperties
<1>3. b \in Seq(Windows) /\ Len(b) = n - k /\ \A i \in 1..(n - k) : b[i] = s[k + i]
  <2>1. \A i \in (k + 1)..n : s[i] \in Windows
    BY <1>1
  <2>2. b \in Seq(Windows) /\ Len(b) = (IF k + 1 <= n THEN n - (k + 1) + 1 ELSE 0)
        /\ \A i \in 1..(n - (k + 1) + 1) : b[i] = s[(k + 1) + i - 1]
    BY <1>1, <2>1, SubSeqProperties
  <2>3. n - (k + 1) + 1 = n - k /\ (IF k + 1 <= n THEN n - (k + 1) + 1 ELSE 0) = n - k
    BY <1>1
  <2>4. \A i \in 1..(n - k) : (k + 1) + i - 1 = k + i
    BY <1>1
  <2> HIDE DEF b
  <2> QED BY <2>2, <2>3, <2>4
<1> HIDE DEF a, b
<1>4. r \in Seq(Windows) /\ Len(r) = n - 1
      /\ \A i \in 1..(n - 1) : r[i] = IF i < k THEN s[i] ELSE s[i + 1]
  <2>1. r = a \o b
    BY DEF r, RemoveAt, a, b
  <2>2. /\ a \o b \in Seq(Windows) /\ Len(a \o b) = Len(a) + Len(b)
        /\ \A i \in 1..(Len(a) + Len(b)) :
              (a \o b)[i] = IF i <= Len(a) THEN a[i] ELSE b[i - Len(a)]
    BY <1>2, <1>3, ConcatProperties
  <2> HIDE DEF r
  <2>3. ASSUME NEW i \in 1..(n - 1) PROVE r[i] = IF i < k THEN s[i] ELSE s[i + 1]
    <3>1. r[i] = IF i <= k - 1 THEN a[i] ELSE b[i - (k - 1)]
      <4>1. Len(a) + Len(b) = n - 1
        BY <1>1, <1>2, <1>3
      <4> QED BY <1>2, <2>1, <2>2, <4>1
    <3>2. CASE i < k
      BY <1>1, <1>2, <3>1, <3>2
    <3>3. CASE ~(i < k)
      <4>1. i - (k - 1) \in 1..(n - k) /\ k + (i - (k - 1)) = i + 1
        BY <1>1, <3>3
      <4> QED BY <1>1, <1>3, <3>1, <3>3, <4>1
    <3> QED BY <3>2, <3>3
  <2> QED BY <1>1, <1>2, <1>3, <2>1, <2>2, <2>3
<1>5. DOMAIN r = 1..(n - 1)
  BY <1>4, LenProperties
<1> HIDE DEF r, n
<1>6. IsInjective(r)
  <2> SUFFICES ASSUME NEW i \in 1..(n - 1), NEW j \in 1..(n - 1), r[i] = r[j] PROVE i = j
    BY <1>5 DEF IsInjective
  <2>1. \A p, q \in 1..n : s[p] = s[q] => p = q
    BY <1>1 DEF IsInjective
  <2>2. /\ i \in 1..n /\ i + 1 \in 1..n /\ r[i] = IF i < k THEN s[i] ELSE s[i + 1]
        /\ j \in 1..n /\ j + 1 \in 1..n /\ r[j] = IF j < k THEN s[j] ELSE s[j + 1]
    BY <1>1, <1>4
  <2> DEFINE P(m) == IF m < k THEN m ELSE m + 1
  <2>3. s[P(i)] = s[P(j)] /\ P(i) \in 1..n /\ P(j) \in 1..n
    BY <2>2
  <2>4. P(i) = P(j)
    <3> HIDE DEF P
    <3> QED BY <2>1, <2>3
  <2>5. i \in Nat /\ j \in Nat /\ k \in Nat
    BY <1>1
  <2> QED BY <2>4, <2>5
<1>7. ToSet(r) = ToSet(s) \ {s[k]}
  <2>1. ASSUME NEW i \in 1..(n - 1) PROVE r[i] \in ToSet(s) \ {s[k]}
    <3>1. \A p, q \in 1..n : s[p] = s[q] => p = q
      BY <1>1 DEF IsInjective
    <3>2. PICK p \in 1..n : p # k /\ r[i] = s[p]
      <4>1. i \in 1..n /\ i + 1 \in 1..n /\ r[i] = IF i < k THEN s[i] ELSE s[i + 1]
        BY <1>1, <1>4
      <4>2. CASE i < k
        BY <1>1, <4>1, <4>2
      <4>3. CASE ~(i < k)
        BY <1>1, <4>1, <4>3
      <4> QED BY <4>2, <4>3
    <3> QED BY <1>1, <3>1, <3>2 DEF ToSet
  <2>2. ASSUME NEW p \in 1..n, p # k PROVE \E i \in 1..(n - 1) : r[i] = s[p]
    <3>1. CASE p < k
      <4>1. p \in 1..(n - 1)
        BY <1>1, <3>1
      <4> QED BY <1>4, <3>1, <4>1
    <3>2. CASE p > k
      <4>1. p - 1 \in 1..(n - 1) /\ ~(p - 1 < k) /\ (p - 1) + 1 = p
        BY <1>1, <3>2
      <4> QED BY <1>4, <4>1
    <3> QED BY <1>1, <2>2, <3>1, <3>2
  <2>3. \A e : e \in ToSet(r) <=> \E i \in 1..(n - 1) : e = r[i]
    BY <1>5 DEF ToSet
  <2>4. \A e : e \in ToSet(s) <=> \E p \in 1..n : e = s[p]
    BY <1>1 DEF ToSet
  <2>5. ToSet(s) \ {s[k]} \subseteq ToSet(r)
    BY <2>2, <2>3, <2>4
  <2> QED BY <2>1, <2>3, <2>5
<1> QED BY <1>4, <1>6, <1>7 DEF r

\* Every window on the desktop was opened and not closed since, or is fading away with the
\* timer set that removes it; and only such a window is minimized.
OpenAsAsked ==
    /\ closingWindows = closeTimers
    /\ ToSet(openWindows) = wanted \cup closingWindows /\ wanted \cap closingWindows = {}
    /\ minimizedWindows \subseteq ToSet(openWindows)

WindowsInv == WindowsTypeOK /\ OpenAsAsked

\* The windows are changed by one at a time.
LEMMA WithStep ==
    ASSUME WindowsTypeOK, NEW w \in Windows
    PROVE  /\ WithWindow(w) \in Seq(Windows) /\ IsInjective(WithWindow(w))
           /\ ToSet(WithWindow(w)) = ToSet(openWindows) \cup {w}
BY AppendWindow DEF WindowsTypeOK, WithWindow

LEMMA WithoutStep ==
    ASSUME WindowsTypeOK, NEW w \in Windows
    PROVE  /\ Without(w) \in Seq(Windows) /\ IsInjective(Without(w))
           /\ ToSet(Without(w)) = ToSet(openWindows) \ {w}
<1>1. CASE w \in ToSet(openWindows)
  <2> DEFINE k == CHOOSE i \in DOMAIN openWindows : openWindows[i] = w
  <2>1. k \in DOMAIN openWindows /\ openWindows[k] = w
    BY <1>1 DEF ToSet
  <2> HIDE DEF k
  <2>2. /\ RemoveAt(openWindows, k) \in Seq(Windows) /\ IsInjective(RemoveAt(openWindows, k))
        /\ ToSet(RemoveAt(openWindows, k)) = ToSet(openWindows) \ {w}
    BY <2>1, RemoveWindow DEF WindowsTypeOK
  <2> QED BY <1>1, <2>2 DEF Without, k
<1>2. CASE w \notin ToSet(openWindows)
  BY <1>2 DEF Without, WindowsTypeOK
<1> QED BY <1>1, <1>2

\* What is focused next is a window, if any is.
LEMMA NextIsWindow ==
    ASSUME WindowsTypeOK, NEW w \in Windows
    PROVE  NextFocusable(w) \in Windows \cup {NoWindow}
<1> DEFINE visible == {k \in DOMAIN openWindows : /\ openWindows[k] # w
                                                  /\ openWindows[k] \notin closingWindows
                                                  /\ openWindows[k] \notin minimizedWindows}
<1>1. /\ Len(openWindows) \in Nat /\ DOMAIN openWindows = 1..Len(openWindows)
      /\ \A k \in 1..Len(openWindows) : openWindows[k] \in Windows
  BY LenProperties, ElementOfSeq DEF WindowsTypeOK
<1>2. visible \subseteq 1..Len(openWindows)
  BY <1>1
<1>3. NextFocusable(w) = IF visible = {} THEN NoWindow ELSE openWindows[Max(visible)]
  BY DEF NextFocusable
<1> HIDE DEF visible
<1>4. CASE visible = {}
  BY <1>3, <1>4
<1>5. CASE visible # {}
  <2>1. Max(visible) \in 1..Len(openWindows)
    BY <1>1, <1>2, <1>5, HasMax
  <2> QED BY <1>1, <1>3, <1>5, <2>1
<1> QED BY <1>4, <1>5

LEMMA WindowsInitInv == DesktopWindowsAssumption /\ WindowsInit => WindowsInv
<1> SUFFICES ASSUME DesktopWindowsAssumption, WindowsInit PROVE WindowsInv
  OBVIOUS
<1>1. openWindows = <<>> /\ openWindows \in Seq(Windows) /\ DOMAIN openWindows = {}
  BY EmptySeq DEF WindowsInit
<1>2. ToSet(openWindows) = {} /\ IsInjective(openWindows)
  BY <1>1 DEF ToSet, IsInjective
<1> QED BY <1>1, <1>2 DEF WindowsInit, WindowsInv, WindowsTypeOK, OpenAsAsked,
                          DesktopWindowsAssumption

\* A window that goes, at once or when its timer fires.
LEMMA FinalizeStep ==
    ASSUME WindowsInv, NEW w \in Windows, NEW next \in Windows \cup {NoWindow}, Finalize(w, next),
           closeTimers' = closeTimers \ {w}, wanted' = wanted \ {w},
           UNCHANGED <<heir, animations>>, gestures' \in 0..MaxGestures
    PROVE  WindowsInv'
<1>1. WindowsTypeOK
  BY DEF WindowsInv
<1>2. /\ openWindows' \in Seq(Windows) /\ IsInjective(openWindows')
      /\ ToSet(openWindows)' = ToSet(openWindows) \ {w}
  BY <1>1, WithoutStep DEF Finalize, ToSet
<1>3. WindowsTypeOK'
  BY <1>1, <1>2 DEF Finalize, WindowsTypeOK
<1>4. OpenAsAsked'
  BY <1>2 DEF Finalize, WindowsInv, OpenAsAsked
<1> QED BY <1>3, <1>4 DEF WindowsInv

LEMMA WindowsStep ==
    DesktopWindowsAssumption /\ WindowsInv /\ [WindowsNext]_windowVars => WindowsInv'
<1> SUFFICES ASSUME DesktopWindowsAssumption, WindowsInv, [WindowsNext]_windowVars
             PROVE  WindowsInv'
  OBVIOUS
<1>t. WindowsTypeOK /\ OpenAsAsked
  BY DEF WindowsInv
<1>g. Gesture => gestures' \in 0..MaxGestures
  BY <1>t DEF Gesture, WindowsTypeOK, DesktopWindowsAssumption
<1>1. ASSUME NEW w \in Windows, OpenWindow(w) PROVE WindowsInv'
  <2>1. /\ openWindows' \in Seq(Windows) /\ IsInjective(openWindows')
        /\ ToSet(openWindows)' = ToSet(openWindows) \cup {w}
    BY <1>1, <1>t, WithStep DEF OpenWindow, ToSet
  <2>2. WindowsTypeOK'
    BY <1>1, <1>t, <1>g, <2>1 DEF OpenWindow, WindowsTypeOK
  <2>3. OpenAsAsked'
    BY <1>1, <1>t, <2>1 DEF OpenWindow, OpenAsAsked
  <2> QED BY <2>2, <2>3 DEF WindowsInv
<1>2. ASSUME NEW w \in Windows, CloseWindow(w) PROVE WindowsInv'
  <2>1. NextFocusable(w) \in Windows \cup {NoWindow}
    BY <1>t, NextIsWindow
  <2>2. CASE animations
    <3>1. /\ UNCHANGED <<openWindows, minimizedWindows, focusedWindow, animations>>
          /\ closingWindows' = closingWindows \cup {w} /\ closeTimers' = closeTimers \cup {w}
          /\ heir' = [heir EXCEPT ![w] = NextFocusable(w)]
          /\ wanted' = wanted \ {w} /\ w \in ToSet(openWindows)
      BY <1>2, <2>2 DEF CloseWindow, Drawn
    <3>2. WindowsTypeOK'
      BY <1>2, <1>t, <1>g, <2>1, <3>1 DEF CloseWindow, WindowsTypeOK
    <3>3. OpenAsAsked'
      BY <1>t, <3>1 DEF OpenAsAsked, ToSet
    <3> QED BY <3>2, <3>3 DEF WindowsInv
  <2>3. CASE ~animations
    BY <1>2, <1>g, <2>1, <2>3, FinalizeStep DEF CloseWindow
  <2> QED BY <2>2, <2>3
<1>3. ASSUME NEW w \in Windows, CloseTimer(w) PROVE WindowsInv'
  <2>1. /\ wanted' = wanted \ {w} /\ heir[w] \in Windows \cup {NoWindow}
        /\ gestures' \in 0..MaxGestures
    BY <1>3, <1>t DEF CloseTimer, OpenAsAsked, WindowsTypeOK
  <2> QED BY <1>3, <2>1, FinalizeStep DEF CloseTimer
<1>4. ASSUME NEW w \in Windows, MinimizeWindow(w) \/ FocusWindow(w) PROVE WindowsInv'
  <2>1. /\ UNCHANGED <<openWindows, closingWindows, closeTimers, heir, animations, gestures,
                       wanted>>
        /\ w \in ToSet(openWindows)
        /\ minimizedWindows' = minimizedWindows \/ minimizedWindows' = minimizedWindows \cup {w}
    BY <1>4 DEF MinimizeWindow, FocusWindow, Drawn
  <2>2. focusedWindow' \in Windows \cup {NoWindow}
    BY <1>4, <1>t, NextIsWindow DEF MinimizeWindow, FocusWindow, WindowsTypeOK
  <2> QED BY <1>t, <2>1, <2>2 DEF WindowsInv, WindowsTypeOK, OpenAsAsked, ToSet
<1>5. CASE ShowDesktop \/ RestoreAll
  <2>1. ToSet(openWindows) \subseteq Windows
    BY <1>t, LenProperties, ElementOfSeq DEF WindowsTypeOK, ToSet
  <2>2. /\ UNCHANGED <<openWindows, closingWindows, closeTimers, heir, animations, gestures,
                       wanted>>
        /\ focusedWindow' \in {focusedWindow, NoWindow}
        /\ minimizedWindows' \subseteq minimizedWindows \cup ToSet(openWindows)
    BY <1>5 DEF ShowDesktop, RestoreAll
  <2> QED BY <1>t, <2>1, <2>2 DEF WindowsInv, WindowsTypeOK, OpenAsAsked, ToSet
<1>6. CASE Animate
  BY <1>6, <1>t, <1>g DEF Animate, WindowsInv, WindowsTypeOK, OpenAsAsked, ToSet
<1>7. CASE UNCHANGED windowVars
  BY <1>7, <1>t DEF windowVars, WindowsInv, WindowsTypeOK, OpenAsAsked, ToSet
<1> QED BY <1>1, <1>2, <1>3, <1>4, <1>5, <1>6, <1>7 DEF WindowsNext

\* The variables of the windows keep their types, for any windows: in particular none is
\* drawn twice (openWindow), and focus goes to a window or to none.
THEOREM WindowsTypeCorrect == DesktopWindowsAssumption => (WindowsSpec => []WindowsTypeOK)
<1> SUFFICES ASSUME DesktopWindowsAssumption PROVE WindowsSpec => []WindowsTypeOK
  OBVIOUS
<1>1. WindowsInit => WindowsInv
  BY WindowsInitInv
<1>2. WindowsInv /\ [WindowsNext]_windowVars => WindowsInv'
  BY WindowsStep
<1>3. WindowsInv => WindowsTypeOK
  BY DEF WindowsInv
<1> QED BY <1>1, <1>2, <1>3, PTL DEF WindowsSpec

\* In every order of clicks and timers (openWindow, closeWindow, finalizeCloseWindow) a window
\* that was opened and not closed since is on the desktop without a timer to remove it, and
\* every other one there has its timer: the safety behind WindowsAsAsked.
THEOREM WindowsStayOrGo == DesktopWindowsAssumption => (WindowsSpec => []OpenAsAsked)
<1> SUFFICES ASSUME DesktopWindowsAssumption PROVE WindowsSpec => []OpenAsAsked
  OBVIOUS
<1>1. WindowsInit => WindowsInv
  BY WindowsInitInv
<1>2. WindowsInv /\ [WindowsNext]_windowVars => WindowsInv'
  BY WindowsStep
<1>3. WindowsInv => OpenAsAsked
  BY DEF WindowsInv
<1> QED BY <1>1, <1>2, <1>3, PTL DEF WindowsSpec

-------------------------------------------------------------------------------
(* WallpaperFade. *)

\* The transition under way ends with what is chosen now.
Coming ==
    /\ transition # 0 /\ aim[transition] = wallpaper
    /\ transition \in preloads \/ finalizer = transition

\* The wallpaper chosen last is shown, or will be: the effect is due, or its transition is
\* under way.
ChoiceIsAwaited == effectDue \/ displayWallpaper = wallpaper \/ Coming

\* What is drawn over the wallpaper has a timer, or an image on its way, that ends it.
OverlayEnds == nextWallpaper # NoWallpaper => finalizer # 0 \/ transition \in preloads

\* The bound on transitions never stops one.
TransitionsAreEnough ==
    effectDue /\ displayWallpaper \notin {NoWallpaper, wallpaper} => transition < MaxTransitions

\* A timer that is set belongs to the transition under way, whose wallpaper is drawn.
FadeInv ==
    /\ finalizer # 0 => finalizer = transition /\ nextWallpaper = aim[finalizer]
    /\ \A n \in 1..transition : aim[n] \in Wallpapers
    /\ displayWallpaper = NoWallpaper => effectDue /\ transition = 0

\* What each choice can still cost: one more run of the effect for what it makes stale of the
\* wallpaper shown, of the one drawn over it and of the image on its way.
Due     == One(effectDue /\ displayWallpaper # wallpaper)
Overlay == One(nextWallpaper \notin {NoWallpaper, wallpaper})
Image   == One(transition \in preloads /\ aim[transition] # wallpaper)

CostInv == transition + Due + Overlay + Image <= 3 * choices + 1

WallpaperInv == WallpaperTypeOK /\ ChoiceIsAwaited /\ OverlayEnds /\ FadeInv /\ CostInv

\* What one kind of cost gives up, another may take over; a choice allows three more.
LEMMA CostGoesOn ==
    ASSUME NEW t \in Nat, NEW c \in Nat, NEW d \in 0..1, NEW o \in 0..1, NEW i \in 0..1,
           NEW d2 \in 0..1, NEW o2 \in 0..1, NEW i2 \in 0..1, t + d + o + i <= 3 * c + 1
    PROVE  /\ t + d2 + o2 + i2 <= 3 * (c + 1) + 1
           /\ d2 = d /\ i2 = 0 /\ o2 <= i => t + d2 + o2 + i2 <= 3 * c + 1
           /\ o2 = 0 /\ i2 = i /\ d2 <= o => t + d2 + o2 + i2 <= 3 * c + 1
  OBVIOUS

LEMMA WallpaperInitInv == WallpaperAssumption /\ WallpaperInit => WallpaperInv
<1> SUFFICES ASSUME WallpaperAssumption, WallpaperInit PROVE WallpaperInv
  OBVIOUS
<1>1. WallpaperTypeOK
  <2>1. MaxTransitions \in Nat /\ MaxChoices \in Nat
    BY DEF WallpaperAssumption
  <2>2. aim \in [1..MaxTransitions -> Wallpapers \cup {NoWallpaper}]
    BY DEF WallpaperInit
  <2>3. /\ transition \in 0..MaxTransitions /\ choices \in 0..MaxChoices
        /\ preloads \subseteq 1..transition /\ {frame, finalizer} \subseteq 0..transition
    BY <2>1 DEF WallpaperInit
  <2> QED BY <2>2, <2>3 DEF WallpaperInit, WallpaperTypeOK
<1>2. ChoiceIsAwaited /\ OverlayEnds /\ FadeInv
  BY DEF WallpaperAssumption, WallpaperInit, ChoiceIsAwaited, OverlayEnds, FadeInv
<1>3. CostInv
  BY DEF WallpaperInit, CostInv, Due, Overlay, Image, One
<1> QED BY <1>1, <1>2, <1>3 DEF WallpaperInv

LEMMA ChooseStep ==
    ASSUME WallpaperAssumption, WallpaperInv, AnimateFades \/ (\E w \in Wallpapers : Choose(w))
    PROVE  WallpaperInv'
<1>1. /\ choices < MaxChoices /\ choices' = choices + 1 /\ effectDue' = TRUE
      /\ UNCHANGED <<displayWallpaper, nextWallpaper, fading, transition, aim, preloads, frame,
                     finalizer>>
      /\ wallpaper' \in Wallpapers /\ animated' \in BOOLEAN
  BY DEF AnimateFades, Choose, WallpaperInv, WallpaperTypeOK
<1>2. WallpaperTypeOK'
  BY <1>1 DEF WallpaperInv, WallpaperTypeOK, WallpaperAssumption
<1>3. ChoiceIsAwaited' /\ OverlayEnds' /\ FadeInv'
  BY <1>1 DEF WallpaperInv, ChoiceIsAwaited, OverlayEnds, FadeInv
<1>4. CostInv'
  <2>1. choices \in Nat /\ transition \in Nat /\ transition' = transition
    BY <1>1 DEF WallpaperInv, WallpaperTypeOK
  <2>2. Due \in 0..1 /\ Overlay \in 0..1 /\ Image \in 0..1
        /\ Due' \in 0..1 /\ Overlay' \in 0..1 /\ Image' \in 0..1
    BY DEF Due, Overlay, Image, One
  <2>3. transition + Due + Overlay + Image <= 3 * choices + 1
    BY DEF WallpaperInv, CostInv
  <2>4. transition + Due' + Overlay' + Image' <= 3 * (choices + 1) + 1
    BY <2>1, <2>2, <2>3, CostGoesOn
  <2> QED BY <1>1, <2>1, <2>4 DEF CostInv
<1> QED BY <1>2, <1>3, <1>4 DEF WallpaperInv

LEMMA FirstStep == ASSUME WallpaperAssumption, WallpaperInv, FirstWallpaper PROVE WallpaperInv'
<1>1. /\ effectDue /\ displayWallpaper' = wallpaper /\ displayWallpaper = NoWallpaper
      /\ UNCHANGED <<animated, wallpaper, nextWallpaper, fading, effectDue, transition, aim,
                     preloads, frame, finalizer, choices>>
  BY DEF FirstWallpaper
<1>2. WallpaperTypeOK'
  BY <1>1 DEF WallpaperInv, WallpaperTypeOK
<1>3. ChoiceIsAwaited' /\ OverlayEnds' /\ FadeInv'
  BY <1>1 DEF WallpaperInv, WallpaperTypeOK, WallpaperAssumption, ChoiceIsAwaited, OverlayEnds,
              FadeInv
<1>4. CostInv'
  <2>1. Due' = 0 /\ Overlay' = Overlay /\ Image' = Image /\ Due \in 0..1
    BY <1>1 DEF Due, Overlay, Image, One
  <2>2. Overlay \in 0..1 /\ Image \in 0..1 /\ transition \in Nat /\ choices \in Nat
    BY DEF Overlay, Image, One, WallpaperInv, WallpaperTypeOK
  <2> QED BY <1>1, <2>1, <2>2 DEF WallpaperInv, CostInv
<1> QED BY <1>2, <1>3, <1>4 DEF WallpaperInv

\* When the effect has something to do, the transitions before it were fewer than the bound.
LEMMA Enough == WallpaperAssumption /\ WallpaperInv => TransitionsAreEnough
<1> SUFFICES ASSUME WallpaperAssumption, WallpaperInv, effectDue, displayWallpaper # wallpaper
             PROVE  transition < MaxTransitions
  BY DEF TransitionsAreEnough
<1>1. Due = 1 /\ Overlay \in 0..1 /\ Image \in 0..1
  BY DEF Due, Overlay, Image, One
<1>2. transition \in Nat /\ choices \in 0..MaxChoices
  BY DEF WallpaperInv, WallpaperTypeOK
<1> QED BY <1>1, <1>2 DEF WallpaperInv, CostInv, WallpaperAssumption

LEMMA TransitStep == ASSUME WallpaperAssumption, WallpaperInv, Transit PROVE WallpaperInv'
<1>t. WallpaperTypeOK
  BY DEF WallpaperInv
<1>0. /\ transition \in Nat /\ choices \in Nat /\ MaxTransitions \in Nat
      /\ transition \in 0..MaxTransitions
      /\ aim \in [1..MaxTransitions -> Wallpapers \cup {NoWallpaper}]
      /\ wallpaper \in Wallpapers /\ NoWallpaper \notin Wallpapers
  BY DEF WallpaperInv, WallpaperTypeOK, WallpaperAssumption
<1>n. /\ Due \in 0..1 /\ Overlay \in 0..1 /\ Image \in 0..1
      /\ Due' \in 0..1 /\ Overlay' \in 0..1 /\ Image' \in 0..1
  BY DEF Due, Overlay, Image, One
<1>1. effectDue /\ displayWallpaper # NoWallpaper /\ UNCHANGED <<animated, wallpaper, choices>>
  BY DEF Transit
<1>2. CASE displayWallpaper = wallpaper
  <2>1. /\ effectDue' = FALSE
        /\ UNCHANGED <<transition, aim, preloads, displayWallpaper, nextWallpaper, fading,
                       frame, finalizer>>
    BY <1>2 DEF Transit, NothingToDo
  <2>2. WallpaperTypeOK'
    BY <1>1, <2>1 DEF WallpaperInv, WallpaperTypeOK
  <2>3. ChoiceIsAwaited' /\ OverlayEnds' /\ FadeInv'
    BY <1>1, <1>2, <2>1 DEF WallpaperInv, ChoiceIsAwaited, OverlayEnds, FadeInv
  <2>4. CostInv'
    <3>1. Due' = 0 /\ Overlay' = Overlay /\ Image' = Image
      BY <1>1, <2>1 DEF Due, Overlay, Image, One
    <3> QED BY <1>0, <1>n, <1>1, <2>1, <3>1 DEF WallpaperInv, CostInv
  <2> QED BY <2>2, <2>3, <2>4 DEF WallpaperInv
<1>3. CASE displayWallpaper # wallpaper
  <2> DEFINE t == transition + 1
  <2>1. /\ transition < MaxTransitions /\ transition' = t
        /\ aim' = [aim EXCEPT ![t] = wallpaper] /\ frame' = 0 /\ finalizer' = 0
    BY <1>3 DEF Transit, NothingToDo
  <2>2. /\ t \in 1..MaxTransitions /\ transition' = t /\ aim'[t] = wallpaper
        /\ aim' \in [1..MaxTransitions -> Wallpapers \cup {NoWallpaper}]
        /\ \A n \in 1..t : aim'[n] \in Wallpapers
    <3>1. t \in 1..MaxTransitions
      BY <1>0, <2>1
    <3>2. \A n \in 1..t : n \in 1..MaxTransitions /\ (n = t \/ n \in 1..transition)
      BY <1>0, <3>1
    <3> QED BY <1>0, <2>1, <3>1, <3>2 DEF WallpaperInv, FadeInv
  <2> HIDE DEF t
  <2>3. t = transition + 1 /\ Due = 1
    BY <1>1, <1>3 DEF t, Due, One
  <2>4. CASE animated
    <3>1. /\ preloads' = preloads \cup {t} /\ effectDue' = FALSE
          /\ UNCHANGED <<displayWallpaper, nextWallpaper, fading>>
      BY <1>3, <2>4 DEF Transit, NothingToDo, t
    <3>2. preloads' \subseteq 1..t
      BY <1>0, <2>3, <3>1 DEF WallpaperInv, WallpaperTypeOK
    <3>3. WallpaperTypeOK'
      <4>1. /\ transition' \in 0..MaxTransitions /\ preloads' \subseteq 1..transition'
            /\ {frame', finalizer'} \subseteq 0..transition'
        BY <1>0, <2>1, <2>2, <2>3, <3>2
      <4>2. /\ animated' \in BOOLEAN /\ fading' \in BOOLEAN /\ effectDue' \in BOOLEAN
            /\ wallpaper' \in Wallpapers /\ choices' \in 0..MaxChoices
        BY <1>t, <1>1, <3>1 DEF WallpaperTypeOK
      <4>3. {displayWallpaper', nextWallpaper'} \subseteq Wallpapers \cup {NoWallpaper}
        BY <1>0, <1>t, <3>1 DEF WallpaperTypeOK
      <4> QED BY <2>2, <4>1, <4>2, <4>3 DEF WallpaperTypeOK
    <3>4. ChoiceIsAwaited' /\ OverlayEnds' /\ FadeInv'
      BY <1>0, <1>1, <2>1, <2>2, <3>1 DEF ChoiceIsAwaited, Coming, OverlayEnds, FadeInv
    <3>5. Due' = 0 /\ Image' = 0 /\ Overlay' = Overlay
      BY <1>1, <2>2, <3>1 DEF Due, Image, Overlay, One
    <3>6. CostInv'
      BY <1>0, <1>n, <1>1, <2>2, <2>3, <3>5 DEF WallpaperInv, CostInv
    <3> QED BY <3>3, <3>4, <3>6 DEF WallpaperInv
  <2>5. CASE ~animated
    <3>1. /\ displayWallpaper' = wallpaper /\ nextWallpaper' = NoWallpaper /\ fading' = FALSE
          /\ effectDue' = TRUE /\ UNCHANGED preloads
      BY <1>1, <1>3, <2>5 DEF Transit, NothingToDo, ShowWallpaper
    <3>2. preloads' \subseteq 1..t /\ t \notin preloads
      BY <1>0, <2>3, <3>1 DEF WallpaperInv, WallpaperTypeOK
    <3>3. WallpaperTypeOK'
      <4>1. /\ transition' \in 0..MaxTransitions /\ preloads' \subseteq 1..transition'
            /\ {frame', finalizer'} \subseteq 0..transition'
        BY <1>0, <2>1, <2>2, <2>3, <3>2
      <4>2. /\ animated' \in BOOLEAN /\ fading' \in BOOLEAN /\ effectDue' \in BOOLEAN
            /\ wallpaper' \in Wallpapers /\ choices' \in 0..MaxChoices
        BY <1>t, <1>1, <3>1 DEF WallpaperTypeOK
      <4>3. {displayWallpaper', nextWallpaper'} \subseteq Wallpapers \cup {NoWallpaper}
        BY <1>0, <1>t, <3>1 DEF WallpaperTypeOK
      <4> QED BY <2>2, <4>1, <4>2, <4>3 DEF WallpaperTypeOK
    <3>4. ChoiceIsAwaited' /\ OverlayEnds' /\ FadeInv'
      BY <1>0, <1>1, <2>1, <2>2, <3>1 DEF ChoiceIsAwaited, OverlayEnds, FadeInv
    <3>5. Due' = 0 /\ Image' = 0 /\ Overlay' = 0
      BY <1>1, <2>2, <3>1, <3>2 DEF Due, Image, Overlay, One
    <3>6. CostInv'
      BY <1>0, <1>n, <1>1, <2>2, <2>3, <3>5 DEF WallpaperInv, CostInv
    <3> QED BY <3>3, <3>4, <3>6 DEF WallpaperInv
  <2> QED BY <2>4, <2>5
<1> QED BY <1>2, <1>3

LEMMA StartFadeStep ==
    ASSUME WallpaperAssumption, WallpaperInv, NEW n \in preloads, StartFade(n)
    PROVE  WallpaperInv'
<1>t. WallpaperTypeOK
  BY DEF WallpaperInv
<1>0. /\ transition \in Nat /\ choices \in Nat /\ preloads \subseteq 1..transition
      /\ n \in 1..transition /\ transition \in 1..transition /\ aim[n] \in Wallpapers
      /\ displayWallpaper # NoWallpaper
  BY DEF WallpaperInv, WallpaperTypeOK, FadeInv
<1>n. /\ Due \in 0..1 /\ Overlay \in 0..1 /\ Image \in 0..1
      /\ Due' \in 0..1 /\ Overlay' \in 0..1 /\ Image' \in 0..1
  BY DEF Due, Overlay, Image, One
<1>1. /\ preloads' = preloads \ {n}
      /\ UNCHANGED <<animated, wallpaper, displayWallpaper, effectDue, transition, aim, choices>>
  BY DEF StartFade
<1>2. CASE n = transition
  <2>1. nextWallpaper' = aim[n] /\ fading' = FALSE /\ frame' = n /\ finalizer' = n
    BY <1>2 DEF StartFade
  <2>2. WallpaperTypeOK'
    <3>1. preloads' \subseteq 1..transition' /\ {frame', finalizer'} \subseteq 0..transition'
      BY <1>0, <1>1, <2>1
    <3>2. {displayWallpaper', nextWallpaper'} \subseteq Wallpapers \cup {NoWallpaper}
      BY <1>0, <1>t, <1>1, <2>1 DEF WallpaperTypeOK
    <3> QED BY <1>t, <1>1, <2>1, <3>1, <3>2 DEF WallpaperTypeOK
  <2>3. ChoiceIsAwaited' /\ OverlayEnds' /\ FadeInv'
    BY <1>0, <1>1, <1>2, <2>1 DEF WallpaperInv, ChoiceIsAwaited, Coming, OverlayEnds, FadeInv
  <2>4. Due' = Due /\ Image' = 0 /\ Overlay' <= Image
    BY <1>0, <1>1, <1>2, <2>1 DEF Due, Image, Overlay, One
  <2>5. transition' = transition /\ choices' = choices
    BY <1>1
  <2>6. CostInv'
    <3>1. transition + Due + Overlay + Image <= 3 * choices + 1
      BY DEF WallpaperInv, CostInv
    <3>2. transition + Due' + Overlay' + Image' <= 3 * choices + 1
      BY <1>0, <1>n, <2>4, <3>1, CostGoesOn
    <3> QED BY <2>5, <3>2 DEF CostInv
  <2> QED BY <2>2, <2>3, <2>6 DEF WallpaperInv
<1>3. CASE n # transition
  <2>1. UNCHANGED <<nextWallpaper, fading, frame, finalizer>>
    BY <1>3 DEF StartFade
  <2>2. WallpaperTypeOK'
    BY <1>0, <1>1, <2>1 DEF WallpaperInv, WallpaperTypeOK
  <2>3. ChoiceIsAwaited' /\ OverlayEnds' /\ FadeInv'
    BY <1>0, <1>1, <1>3, <2>1 DEF WallpaperInv, ChoiceIsAwaited, Coming, OverlayEnds, FadeInv
  <2>4. Due' = Due /\ Image' = Image /\ Overlay' = Overlay
    BY <1>0, <1>1, <1>3, <2>1 DEF Due, Image, Overlay, One
  <2>5. CostInv'
    BY <1>0, <1>n, <1>1, <2>4 DEF WallpaperInv, CostInv
  <2> QED BY <2>2, <2>3, <2>5 DEF WallpaperInv
<1> QED BY <1>2, <1>3

LEMMA FrameStep == ASSUME WallpaperAssumption, WallpaperInv, Frame PROVE WallpaperInv'
<1>1. /\ frame' = 0 /\ fading' = (fading \/ frame = transition)
      /\ UNCHANGED <<animated, wallpaper, displayWallpaper, nextWallpaper, effectDue, transition,
                     aim, preloads, finalizer, choices>>
  BY DEF Frame
<1>2. WallpaperTypeOK'
  BY <1>1 DEF WallpaperInv, WallpaperTypeOK
<1>3. ChoiceIsAwaited' /\ OverlayEnds' /\ FadeInv' /\ CostInv'
  BY <1>1 DEF WallpaperInv, ChoiceIsAwaited, Coming, OverlayEnds, FadeInv, CostInv, Due, Overlay,
              Image
<1> QED BY <1>2, <1>3 DEF WallpaperInv

\* The end of a fade, told or by the timer: what was drawn over the wallpaper takes its place.
LEMMA ShowStep ==
    ASSUME WallpaperAssumption, WallpaperInv, nextWallpaper # NoWallpaper,
           ShowWallpaper(nextWallpaper), finalizer' = 0,
           UNCHANGED <<animated, wallpaper, transition, aim, preloads, frame, choices>>
    PROVE  WallpaperInv'
<1>t. WallpaperTypeOK
  BY DEF WallpaperInv
<1>0. /\ transition \in Nat /\ choices \in Nat /\ nextWallpaper \in Wallpapers
      /\ NoWallpaper \notin Wallpapers
  BY DEF WallpaperInv, WallpaperTypeOK, WallpaperAssumption
<1>n. /\ Due \in 0..1 /\ Overlay \in 0..1 /\ Image \in 0..1
      /\ Due' \in 0..1 /\ Overlay' \in 0..1 /\ Image' \in 0..1
  BY DEF Due, Overlay, Image, One
<1>1. /\ displayWallpaper' = nextWallpaper /\ nextWallpaper' = NoWallpaper /\ fading' = FALSE
      /\ effectDue' = (effectDue \/ displayWallpaper # nextWallpaper)
  BY DEF ShowWallpaper
<1>2. WallpaperTypeOK'
  <2>1. /\ {displayWallpaper', nextWallpaper'} \subseteq Wallpapers \cup {NoWallpaper}
        /\ fading' \in BOOLEAN /\ effectDue' \in BOOLEAN
    BY <1>0, <1>t, <1>1 DEF WallpaperTypeOK
  <2>2. {frame', finalizer'} \subseteq 0..transition'
    BY <1>0, <1>t DEF WallpaperTypeOK
  <2> QED BY <1>t, <2>1, <2>2 DEF WallpaperTypeOK
<1>3. ChoiceIsAwaited'
  BY <1>1 DEF WallpaperInv, ChoiceIsAwaited, Coming, FadeInv
<1>4. OverlayEnds' /\ FadeInv'
  BY <1>0, <1>1 DEF WallpaperInv, OverlayEnds, FadeInv
<1>5. Due' <= Overlay /\ Overlay' = 0 /\ Image' = Image
  BY <1>0, <1>1 DEF Due, Overlay, Image, One
<1>6. CostInv'
  <2>1. transition' = transition /\ choices' = choices
    OBVIOUS
  <2>2. transition + Due + Overlay + Image <= 3 * choices + 1
    BY DEF WallpaperInv, CostInv
  <2>3. transition + Due' + Overlay' + Image' <= 3 * choices + 1
    BY <1>0, <1>n, <1>5, <2>2, CostGoesOn
  <2> QED BY <2>1, <2>3 DEF CostInv
<1> QED BY <1>2, <1>3, <1>4, <1>6 DEF WallpaperInv

LEMMA WallpaperStep ==
    WallpaperAssumption /\ WallpaperInv /\ [WallpaperNext]_wallpaperVars => WallpaperInv'
<1> SUFFICES ASSUME WallpaperAssumption, WallpaperInv, [WallpaperNext]_wallpaperVars
             PROVE  WallpaperInv'
  OBVIOUS
<1>1. CASE AnimateFades \/ (\E w \in Wallpapers : Choose(w))
  BY <1>1, ChooseStep
<1>2. CASE FirstWallpaper
  BY <1>2, FirstStep
<1>3. CASE Transit
  BY <1>3, TransitStep
<1>4. ASSUME NEW n \in preloads, StartFade(n) PROVE WallpaperInv'
  BY <1>4, StartFadeStep
<1>5. CASE Frame
  BY <1>5, FrameStep
<1>6. CASE FadeEnds
  BY <1>6, ShowStep DEF FadeEnds
<1>7. CASE FinalizeTimer
  <2>1. finalizer # 0 /\ finalizer = transition /\ nextWallpaper = aim[finalizer]
    BY <1>7 DEF FinalizeTimer, WallpaperInv, FadeInv
  <2>2. nextWallpaper # NoWallpaper
    BY <2>1 DEF WallpaperInv, WallpaperTypeOK, FadeInv, WallpaperAssumption
  <2> QED BY <1>7, <2>1, <2>2, ShowStep DEF FinalizeTimer
<1>8. CASE UNCHANGED wallpaperVars
  BY <1>8 DEF wallpaperVars, WallpaperInv, WallpaperTypeOK, ChoiceIsAwaited, Coming, OverlayEnds,
              FadeInv, CostInv, Due, Overlay, Image
<1> QED BY <1>1, <1>2, <1>3, <1>4, <1>5, <1>6, <1>7, <1>8 DEF WallpaperNext, WallpaperSteps

\* The variables of the wallpaper keep their types, for any wallpapers and choices.
THEOREM WallpaperTypeCorrect == WallpaperAssumption => (WallpaperSpec => []WallpaperTypeOK)
<1> SUFFICES ASSUME WallpaperAssumption PROVE WallpaperSpec => []WallpaperTypeOK
  OBVIOUS
<1>1. WallpaperInit => WallpaperInv
  BY WallpaperInitInv
<1>2. WallpaperInv /\ [WallpaperNext]_wallpaperVars => WallpaperInv'
  BY WallpaperStep
<1>3. WallpaperInv => WallpaperTypeOK
  BY DEF WallpaperInv
<1> QED BY <1>1, <1>2, <1>3, PTL DEF WallpaperSpec

\* Whatever is chosen while images load and fades run (the effect of appearance.wallpaper),
\* the last choice is shown or on its way, nothing is left drawn over it for good, and three
\* transitions for every choice are enough: the safety behind WallpaperArrives, and what its
\* bound rests on.
THEOREM ChoicesArrive ==
    WallpaperAssumption =>
       (WallpaperSpec => [](ChoiceIsAwaited /\ OverlayEnds /\ TransitionsAreEnough))
<1> SUFFICES ASSUME WallpaperAssumption
             PROVE  WallpaperSpec => [](ChoiceIsAwaited /\ OverlayEnds /\ TransitionsAreEnough)
  OBVIOUS
<1>1. WallpaperInit => WallpaperInv
  BY WallpaperInitInv
<1>2. WallpaperInv /\ [WallpaperNext]_wallpaperVars => WallpaperInv'
  BY WallpaperStep
<1>3. WallpaperInv => ChoiceIsAwaited /\ OverlayEnds /\ TransitionsAreEnough
  BY Enough DEF WallpaperInv
<1> QED BY <1>1, <1>2, <1>3, PTL DEF WallpaperSpec

-------------------------------------------------------------------------------
(* The components of MCDesktop side by side: each of its behaviours is one of every component. *)

\* A step of the desktop and of what the server holds for browsers is one of each component,
\* or leaves it alone; so no component can be disturbed by another one's steps.
LEMMA DesktopStep ==
    ASSUME [DesktopNext]_allVars
    PROVE  /\ [Next]_vars /\ [TrackingNext]_trackingVars /\ [TerminalNext]_terminalVars
           /\ [BridgeNext]_bridgeVars /\ [SnapshotNext]_snapshotVars /\ [UpdateNext]_updateVars
           /\ [AccountNext]_accountVars /\ [RecoveryNext]_desktopVars /\ [WindowsNext]_windowVars
           /\ [WallpaperNext]_wallpaperVars /\ part' = part
BY DEF DesktopNext, TrackingOnly, Only, allVars

\* The run of the desktop checks behaviours of each of its ten components, restricted to the
\* part chosen and nothing else.
THEOREM DesktopIsItsParts ==
    DesktopSpec =>
       /\ Spec /\ TrackingSpec /\ TerminalSpec /\ BridgeSpec /\ SnapshotSpec
       /\ UpdateSpec /\ AccountSpec /\ RecoverySpec /\ WindowsSpec /\ WallpaperSpec
<1>1. DesktopInit =>
         /\ Init /\ TrackingInit /\ TerminalInit /\ BridgeInit /\ SnapshotInit
         /\ UpdateInit /\ AccountInit /\ RecoveryInit /\ WindowsInit /\ WallpaperInit
  BY DEF DesktopInit
<1> QED
  BY <1>1, DesktopStep, PTL
     DEF DesktopSpec, Spec, TrackingSpec, TerminalSpec, BridgeSpec, SnapshotSpec,
         UpdateSpec, AccountSpec, RecoverySpec, WindowsSpec, WallpaperSpec

DesktopParts == {"cache", "two operations", "one operation", "terminal", "network", "catalog",
                 "release", "proxy", "shell", "windows", "wallpaper"}

LEMMA OneDesktopPart == DesktopSpec => [](part \in DesktopParts)
<1>1. DesktopInit => part \in DesktopParts
  BY DEF DesktopInit, DesktopParts
<1>2. part \in DesktopParts /\ [DesktopNext]_allVars => (part \in DesktopParts)'
  BY DesktopStep DEF DesktopParts
<1> QED
  BY <1>1, <1>2, PTL DEF DesktopSpec

\* Every invariant that the run of the desktop checks holds of its own specification, for any
\* number of requests, operations, connections, windows and wallpapers: whatever a behaviour
\* exercises keeps its types, and its promises.
THEOREM DesktopKeepsItsPromises ==
    DesktopSpec => [](/\ TypesOK /\ FreshAnswers /\ ShellsHaveOwners /\ SnapshotsFollowFiles
                      /\ KnownIsServed)
<1>1. /\ TypeOK /\ TrackingTypeOK /\ TerminalTypeOK /\ BridgeTypeOK /\ SnapshotTypeOK
      /\ UpdateTypeOK /\ AccountTypeOK /\ RecoveryTypeOK /\ WindowsTypeOK /\ WallpaperTypeOK
      /\ part \in DesktopParts
      => TypesOK
  BY Zenon DEF TypesOK, DesktopParts
<1>2. /\ OperationTrackingAssumption /\ TerminalSessionsAssumption
      /\ NetworkEventsAssumption /\ CatalogSnapshotsAssumption
      /\ SystemUpdateAssumption /\ FirstAccountAssumption
      /\ ServerRecoveryAssumption /\ DesktopWindowsAssumption
      /\ WallpaperAssumption
  BY DesktopAssumption
<1>3. /\ TrackingSpec => []TrackingTypeOK
      /\ TerminalSpec => []TerminalTypeOK /\ []ShellsHaveOwners
      /\ BridgeSpec => []BridgeTypeOK
      /\ SnapshotSpec => []SnapshotTypeOK /\ []SnapshotsFollowFiles
      /\ UpdateSpec => []UpdateTypeOK /\ []KnownIsServed
      /\ AccountSpec => []AccountTypeOK
      /\ RecoverySpec => []RecoveryTypeOK
      /\ WindowsSpec => []WindowsTypeOK
      /\ WallpaperSpec => []WallpaperTypeOK
  BY <1>2, TrackingTypeCorrect, TerminalTypeCorrect, BridgeTypeCorrect, SnapshotTypeCorrect,
     UpdateTypeCorrect, AccountTypeCorrect, RecoveryTypeCorrect, WindowsTypeCorrect,
     WallpaperTypeCorrect, ShellsAreOwned, SnapshotsAreCurrent, KnownVersionsAreServed
<1> QED
  BY <1>1, <1>3, MemoTypeCorrect, AnswersAreFresh, OneDesktopPart, DesktopIsItsParts, PTL
================================================================================
