-------------------------------- MODULE SystemUpdate --------------------------------
(***************************************************************************)
(* lib/server/modules/system/update-service.ts, getLatestVersion: what     *)
(* GitHub answered is remembered for an hour, and the call is shared while *)
(* it lasts, except by the button "Check now". The branch or the releases  *)
(* that are followed stay the same while the server runs.                  *)
(***************************************************************************)
EXTENDS Naturals

CONSTANTS
    Load, Check,    \* requests: of a page, and of the button "Check now"
    Unknown, Pending, Failed,  \* no version; a version asked for; an error
    Releases,       \* bound: versions published
    MaxFailures,    \* bound: calls of GitHub that fail
    MaxRestarts

Asker == Load \cup Check

SystemUpdateAssumption ==
    /\ Load \cap Check = {} /\ Unknown \notin Load \cup Check /\ Releases \in Nat \ {0}
    /\ Unknown # Pending /\ Unknown # Failed /\ Pending # Failed
    /\ {Unknown, Pending, Failed} \cap 0..Releases = {}
    /\ MaxFailures \in Nat /\ MaxRestarts \in Nat

VARIABLES
    published,    \* the latest version on GitHub
    latest,       \* latestVersionCache, Unknown for null
    valid,        \* its expiresAt is to come
    backoff,      \* latestVersionFailure: its retryAt is to come
    sharing,      \* latestVersionInFlight: the request that made the call
    github,       \* of each request: the call it has made, and the answer on its way
    fallback,     \* the cache as it was when the call was made
    told,         \* what each request was told: a version, or Failed
    joined,       \* the call it joined for
    knew,         \* history: a version was known when it asked
    restarts, failures

updateVars == <<published, latest, valid, backoff, sharing, github, fallback, told, joined, knew,
                restarts, failures>>
checkVars  == <<latest, valid, backoff, sharing, github, fallback, told, joined, knew>>

Release == 1..Releases

UpdateTypeOK ==
    /\ published \in Release /\ latest \in Release \cup {Unknown}
    /\ valid \in BOOLEAN /\ backoff \in BOOLEAN
    /\ sharing \in Load \cup {Unknown}
    /\ github \in [Asker -> Release \cup {Unknown, Pending}]
    /\ fallback \in [Asker -> Release \cup {Unknown}]
    /\ told \in [Asker -> Release \cup {Unknown, Failed}]
    /\ joined \in [Asker -> Asker \cup {Unknown}] /\ knew \in [Asker -> BOOLEAN]
    /\ restarts \in 0..MaxRestarts /\ failures \in 0..MaxFailures

UpdateInit ==
    /\ published = 1 /\ latest = Unknown /\ valid = FALSE /\ backoff = FALSE
    /\ sharing = Unknown
    /\ github = [r \in Asker |-> Unknown] /\ fallback = [r \in Asker |-> Unknown]
    /\ told = [r \in Asker |-> Unknown] /\ joined = [r \in Asker |-> Unknown]
    /\ knew = [r \in Asker |-> FALSE]
    /\ restarts = 0 /\ failures = 0

-------------------------------------------------------------------------------
(* What a request finds when it asks. *)

AsksVersion(r) ==
    /\ told[r] = Unknown /\ joined[r] = Unknown
    /\ knew' = [knew EXCEPT ![r] = latest # Unknown]
    /\ UNCHANGED <<published, latest, valid, backoff, restarts, failures>>

LoadCached(r) ==
    /\ AsksVersion(r) /\ r \in Load /\ latest # Unknown /\ valid
    /\ told' = [told EXCEPT ![r] = latest]
    /\ UNCHANGED <<sharing, github, fallback, joined>>

\* Nothing is known, and the last call failed within FAILED_CHECK_BACKOFF_MS.
LoadTooSoon(r) ==
    /\ AsksVersion(r) /\ r \in Load /\ latest = Unknown /\ backoff
    /\ told' = [told EXCEPT ![r] = Failed]
    /\ UNCHANGED <<sharing, github, fallback, joined>>

MustCall(r) ==
    r \in Check \/ IF latest # Unknown THEN ~valid ELSE ~backoff

LoadJoins(r) ==
    /\ AsksVersion(r) /\ r \in Load /\ MustCall(r) /\ sharing # Unknown
    /\ joined' = [joined EXCEPT ![r] = sharing]
    /\ UNCHANGED <<sharing, github, fallback, told>>

\* A check asks GitHub whatever is under way, and nobody joins it.
AskCalls(r) ==
    /\ AsksVersion(r) /\ MustCall(r) /\ (r \in Load => sharing = Unknown)
    /\ github' = [github EXCEPT ![r] = Pending]
    /\ fallback' = [fallback EXCEPT ![r] = latest]
    /\ joined' = [joined EXCEPT ![r] = r]
    /\ sharing' = IF r \in Load THEN r ELSE sharing
    /\ UNCHANGED told

\* GitHub answers; the answer arrives later.
GitHub(r) ==
    /\ github[r] = Pending
    /\ github' = [github EXCEPT ![r] = published]
    /\ UNCHANGED <<published, latest, valid, backoff, sharing, fallback, told, joined, knew,
                   restarts, failures>>

\* All who wait for the call are told, and the finally lets go of it.
SettleCall(r, result) ==
    /\ told' = [q \in Asker |-> IF joined[q] = r THEN result ELSE told[q]]
    /\ joined' = [q \in Asker |-> IF joined[q] = r THEN Unknown ELSE joined[q]]
    /\ github' = [github EXCEPT ![r] = Unknown]
    /\ sharing' = IF sharing = r THEN Unknown ELSE sharing
    /\ UNCHANGED <<published, fallback, knew, restarts>>

Succeed(r) ==
    /\ github[r] \in Release
    /\ latest' = github[r] /\ valid' = TRUE /\ backoff' = FALSE
    /\ SettleCall(r, github[r])
    /\ UNCHANGED failures

\* Mutant: the failure is thrown when nothing valid is known.
BadFail(r) ==
    /\ github[r] # Unknown /\ failures < MaxFailures /\ failures' = failures + 1
    /\ backoff' = (backoff \/ fallback[r] = Unknown)
    /\ SettleCall(r, IF r \in Check \/ ~valid THEN Failed ELSE fallback[r])
    /\ UNCHANGED <<latest, valid>>

\* The last known version is served instead, but not to a check.
Fail(r) ==
    /\ github[r] # Unknown /\ failures < MaxFailures /\ failures' = failures + 1
    /\ backoff' = (backoff \/ fallback[r] = Unknown)
    /\ SettleCall(r, IF r \in Check \/ fallback[r] = Unknown THEN Failed ELSE fallback[r])
    /\ UNCHANGED <<latest, valid>>

\* LATEST_VERSION_TTL_MS is longer than any call lasts.
VersionExpires ==
    /\ valid /\ valid' = FALSE
    /\ \A r \in Asker : github[r] # Unknown => fallback[r] = latest
    /\ UNCHANGED <<published, latest, backoff, sharing, github, fallback, told, joined, knew,
                   restarts, failures>>

BackOffEnds ==
    /\ backoff /\ backoff' = FALSE
    /\ UNCHANGED <<published, latest, valid, sharing, github, fallback, told, joined, knew,
                   restarts, failures>>

PublishRelease ==
    /\ published < Releases /\ published' = published + 1
    /\ UNCHANGED <<checkVars, restarts, failures>>

\* The server restarts: requests and what is remembered are gone.
UpdateRestart ==
    /\ restarts < MaxRestarts /\ restarts' = restarts + 1
    /\ latest' = Unknown /\ valid' = FALSE /\ backoff' = FALSE /\ sharing' = Unknown
    /\ github' = [r \in Asker |-> Unknown] /\ joined' = [r \in Asker |-> Unknown]
    /\ UNCHANGED <<published, fallback, told, knew, failures>>

UpdateNext ==
    \/ \E r \in Asker : \/ LoadCached(r) \/ LoadTooSoon(r) \/ LoadJoins(r) \/ AskCalls(r)
                        \/ GitHub(r) \/ Succeed(r) \/ Fail(r)
    \/ VersionExpires \/ BackOffEnds \/ PublishRelease \/ UpdateRestart

UpdateSpec == UpdateInit /\ [][UpdateNext]_updateVars

-------------------------------------------------------------------------------

\* Once a version is known, no page is told an error (getLatestVersion), whoever else has
\* asked, checked or failed meanwhile.
KnownIsServed == \A r \in Load : knew[r] => told[r] # Failed
====================================================================================
