-------------------------------- MODULE FirstAccount --------------------------------
(***************************************************************************)
(* proxy.ts with the routes for registration, login and logout: whether    *)
(* the server has an account decides where every visitor is sent, and      *)
(* clears the session of one who cannot have it. The proxy asks the server *)
(* it stands in front of, and remembers and shares the answer.             *)
(***************************************************************************)
EXTENDS Naturals, FiniteSets

CONSTANTS
    Visitor, Nobody,
    MaxLapses,     \* bound: answers that grow old
    MaxHiccups     \* bound: lookups and inserts that fail, and restarts

FirstAccountAssumption == Nobody \notin Visitor /\ MaxLapses \in Nat /\ MaxHiccups \in Nat

VARIABLES
    accounts,      \* users, by who registered
    session,       \* the browser of each visitor has a valid session cookie
    register,      \* app/api/auth/register: what each visitor's request is at
    cache,         \* authStatusCache: "none", "yes" or "no"
    remembered,    \* its expiresAt is to come
    looking,       \* authStatusInFlight: the visitor whose request began the lookup
    lookup,        \* of each visitor: the lookup it began, and the answer on its way
    waits,         \* the lookup a visitor's request waits for
    page,          \* where each visitor was sent last
    lapses, hiccups,
    taken          \* history: there was an account from the start

accountVars == <<accounts, session, register, cache, remembered, looking, lookup, waits, page,
                 lapses, hiccups, taken>>
proxyVars == <<cache, remembered, looking, lookup, waits, page>>

AccountTypeOK ==
    /\ accounts \subseteq Visitor /\ session \in [Visitor -> BOOLEAN]
    /\ register \in [Visitor -> {"idle", "open"}]
    /\ cache \in {"none", "yes", "no"} /\ remembered \in BOOLEAN
    /\ looking \in Visitor \cup {Nobody}
    /\ lookup \in [Visitor -> {"none", "asked", "yes", "no"}]
    /\ waits \in [Visitor -> Visitor \cup {Nobody}]
    /\ page \in [Visitor -> {"none", "login", "register", "desktop", "refused"}]
    /\ lapses \in 0..MaxLapses /\ hiccups \in 0..MaxHiccups /\ taken \in BOOLEAN

AccountInit ==
    /\ accounts \in {a \in SUBSET Visitor : Cardinality(a) <= 1}
    /\ taken = (accounts # {})
    /\ session \in [Visitor -> BOOLEAN] /\ \A v \in Visitor : session[v] => v \in accounts
    /\ register = [v \in Visitor |-> "idle"]
    /\ cache = "none" /\ remembered = FALSE /\ looking = Nobody
    /\ lookup = [v \in Visitor |-> "none"] /\ waits = [v \in Visitor |-> Nobody]
    /\ page = [v \in Visitor |-> "none"]
    /\ lapses = 0 /\ hiccups = 0

-------------------------------------------------------------------------------
(* The routes the proxy lets everybody through to. *)

\* hasAnyUsers; a clone of the store and a hash of the password follow.
AskToRegister(v) ==
    /\ register[v] = "idle" /\ accounts = {}
    /\ register' = [register EXCEPT ![v] = "open"]
    /\ UNCHANGED <<accounts, session, proxyVars, lapses, hiccups, taken>>

CreateUser(v) ==
    /\ register[v] = "open"
    /\ register' = [register EXCEPT ![v] = "idle"]
    /\ \/ accounts' = accounts \cup {v} /\ UNCHANGED hiccups
       \/ /\ hiccups < MaxHiccups /\ hiccups' = hiccups + 1
          /\ UNCHANGED accounts
    /\ UNCHANGED <<session, proxyVars, lapses, taken>>

Login(v) ==
    /\ v \in accounts /\ ~session[v] /\ waits[v] = Nobody
    /\ session' = [session EXCEPT ![v] = TRUE]
    /\ UNCHANGED <<accounts, register, proxyVars, lapses, hiccups, taken>>

\* A browser makes one request at a time. Or the session expires.
Logout(v) ==
    /\ session[v] /\ waits[v] = Nobody
    /\ session' = [session EXCEPT ![v] = FALSE]
    /\ UNCHANGED <<accounts, register, proxyVars, lapses, hiccups, taken>>

-------------------------------------------------------------------------------
(* route *)

\* Of those that got the same answer, one that has a session loses it if there is nobody.
Send(who, hasUsers) ==
    /\ page' = [v \in Visitor |->
                  IF v \notin who THEN page[v]
                  ELSE IF ~hasUsers THEN "register"
                  ELSE IF session[v] THEN "desktop" ELSE "login"]
    /\ session' = [v \in Visitor |-> session[v] /\ (v \in who => hasUsers)]

\* Without a session, a call of the API is refused at once.
Refuse(v) ==
    /\ waits[v] = Nobody /\ ~session[v] /\ page' = [page EXCEPT ![v] = "refused"]
    /\ UNCHANGED <<accounts, session, register, cache, remembered, looking, lookup, waits,
                   lapses, hiccups, taken>>

\* hasUsersInDb: the answer remembered, ...
UseCached(v) ==
    /\ waits[v] = Nobody /\ cache # "none" /\ remembered
    /\ Send({v}, cache = "yes")
    /\ UNCHANGED <<accounts, register, cache, remembered, looking, lookup, waits, lapses, hiccups,
                   taken>>

\* Mutant: every visitor looks for itself.
BadLookUp(v) ==
    /\ waits[v] = Nobody /\ ~(cache # "none" /\ remembered)
    /\ looking' = v /\ lookup' = [lookup EXCEPT ![v] = "asked"]
    /\ waits' = [waits EXCEPT ![v] = v]
    /\ UNCHANGED <<accounts, session, register, cache, remembered, page, lapses, hiccups, taken>>

\* ... or the lookup under way, or one that it begins.
LookUp(v) ==
    /\ waits[v] = Nobody /\ ~(cache # "none" /\ remembered)
    /\ IF looking = Nobody
       THEN looking' = v /\ lookup' = [lookup EXCEPT ![v] = "asked"]
       ELSE UNCHANGED <<looking, lookup>>
    /\ waits' = [waits EXCEPT ![v] = looking']
    /\ UNCHANGED <<accounts, session, register, cache, remembered, page, lapses, hiccups, taken>>

\* app/api/auth/status counts the users.
Count(v) ==
    /\ lookup[v] = "asked"
    /\ lookup' = [lookup EXCEPT ![v] = IF accounts # {} THEN "yes" ELSE "no"]
    /\ UNCHANGED <<accounts, session, register, cache, remembered, looking, waits, page, lapses,
                   hiccups, taken>>

Waiting(v) == {w \in Visitor : waits[w] = v}

SettleLookup(v, hasUsers) ==
    /\ Send(Waiting(v), hasUsers)
    /\ waits' = [w \in Visitor |-> IF waits[w] = v THEN Nobody ELSE waits[w]]
    /\ lookup' = [lookup EXCEPT ![v] = "none"]
    /\ looking' = Nobody

LookedUp(v) ==
    /\ lookup[v] \in {"yes", "no"}
    /\ cache' = lookup[v] /\ remembered' = TRUE
    /\ SettleLookup(v, lookup[v] = "yes")
    /\ UNCHANGED <<accounts, register, lapses, hiccups, taken>>

\* What a lookup that failed answers.
Otherwise == cache # "no"

LookupFails(v) ==
    /\ lookup[v] # "none" /\ hiccups < MaxHiccups /\ hiccups' = hiccups + 1
    /\ SettleLookup(v, Otherwise)
    /\ UNCHANGED <<accounts, register, cache, remembered, lapses, taken>>

\* AUTH_STATUS_WITH_USERS_CACHE_MS or AUTH_STATUS_WITHOUT_USERS_CACHE_MS is over.
Lapse ==
    /\ remembered /\ remembered' = FALSE
    /\ lapses < MaxLapses /\ lapses' = lapses + 1
    /\ UNCHANGED <<accounts, session, register, cache, looking, lookup, waits, page, hiccups,
                   taken>>

ProxyRestart ==
    /\ hiccups < MaxHiccups /\ hiccups' = hiccups + 1
    /\ register' = [v \in Visitor |-> "idle"]
    /\ cache' = "none" /\ remembered' = FALSE /\ looking' = Nobody
    /\ lookup' = [v \in Visitor |-> "none"] /\ waits' = [v \in Visitor |-> Nobody]
    /\ UNCHANGED <<accounts, session, page, lapses, taken>>

AccountNext ==
    \/ \E v \in Visitor : \/ AskToRegister(v) \/ CreateUser(v) \/ Login(v) \/ Logout(v)
                          \/ Refuse(v) \/ UseCached(v) \/ LookUp(v)
                          \/ Count(v) \/ LookedUp(v) \/ LookupFails(v)
    \/ Lapse \/ ProxyRestart

AccountSpec == AccountInit /\ [][AccountNext]_accountVars

-------------------------------------------------------------------------------

\* Once there was an account from the start, or the proxy has learned of one, nobody is sent to
\* registration any more, whatever lookups overlap, fail or grow old, and whenever the server
\* restarts (hasUsersInDb, lookUpHasUsers).
AccountStaysSeen ==
    [][taken \/ cache = "yes" =>
          \A v \in Visitor : page'[v] = "register" => page[v] = "register"]_accountVars
====================================================================================
