--------------------------------- MODULE TwoFactor ---------------------------------
(***************************************************************************)
(* lib/server/modules/auth/totp-service.ts, for one user: setting up a     *)
(* second factor stores a secret, a first valid code turns it on and hands *)
(* out backup codes, a login uses up a backup code, disabling clears it    *)
(* all. Every request reads the row of the user, waits, and writes it      *)
(* under a condition on a single column.                                   *)
(*                                                                         *)
(* A secret goes by the request that made it, and so does its code: a user *)
(* types the code of a secret, or a backup code, handed out before. Wrong  *)
(* codes, passwords and the limits on guessing change nothing here.        *)
(***************************************************************************)
EXTENDS Naturals

CONSTANTS
    Setups, Verifies, Disables, Logins,   \* bound: requests, each made once
    Slot,        \* backup codes of an enrolment (ten in the code)
    Retries,     \* BACKUP_CODE_CAS_RETRIES
    None,
    MaxMishaps   \* bound: failing writes and restarts

Request == Setups \cup Verifies \cup Disables \cup Logins
Backup  == Verifies \X Slot
Code    == Setups \cup Backup

ASSUME TwoFactorAssumption ==
    /\ Setups \cap Verifies = {} /\ Setups \cap Disables = {} /\ Setups \cap Logins = {}
    /\ Verifies \cap Disables = {} /\ Verifies \cap Logins = {} /\ Disables \cap Logins = {}
    /\ Setups \cap Backup = {} /\ None \notin Code \cup Request
    /\ Retries \in Nat \ {0} /\ MaxMishaps \in Nat

VARIABLES
    enabled, secret, codes,   \* the row of the user: codes are the unused backup codes
    version,      \* the request that wrote the column of backup codes, None: it is null
    sessions,     \* logins whose session is open
    lastUsed,     \* totpReplayGuard
    at, entered,  \* where a request stands, and the code typed
    saw,          \* version of the codes a login has read
    sawCodes,     \* and these codes
    tries,        \* attempts of a login to use up its code
    shown,        \* codes and secrets handed out
    gone,         \* history: backup codes used up or dropped with their enrolment
    opened,       \* history: logins that got a session
    proven,       \* history: the secret whose code turned the second factor on
    crossed,      \* history: the secret was written while a first code was being verified
    mishaps

account == <<enabled, secret, codes, version>>
local   == <<entered, saw, sawCodes, tries>>
history == <<gone, opened, proven, crossed>>
factorVars == <<account, sessions, lastUsed, at, local, shown, history, mishaps>>

Place == {"idle", "storing", "persisting", "answering", "clearing", "revoking",
          "consuming", "reloading", "opening", "done"}

TypeOK ==
    /\ enabled \in BOOLEAN /\ secret \in Setups \cup {None}
    /\ codes \subseteq Backup /\ version \in Request \cup {None}
    /\ sessions \subseteq Logins
    /\ lastUsed \in Code \cup {None}
    /\ at \in [Request -> Place]
    /\ entered \in [Request -> Code \cup {None}]
    /\ saw \in [Request -> Request \cup {None}]
    /\ sawCodes \in [Request -> SUBSET Backup]
    /\ tries \in [Request -> 0..Retries]
    /\ shown \subseteq Code /\ gone \subseteq Backup /\ opened \subseteq Logins
    /\ proven \in Setups \cup {None} /\ crossed \in BOOLEAN
    /\ mishaps \in 0..MaxMishaps

Init ==
    /\ enabled = FALSE /\ secret = None /\ codes = {} /\ version = None
    /\ sessions = {} /\ lastUsed = None
    /\ at = [r \in Request |-> "idle"]
    /\ entered = [r \in Request |-> None]
    /\ saw = [r \in Request |-> None]
    /\ sawCodes = [r \in Request |-> {}]
    /\ tries = [r \in Request |-> 0]
    /\ shown = {} /\ gone = {} /\ opened = {} /\ proven = None /\ crossed = FALSE
    /\ mishaps = 0

Goto(r, place) == at' = [at EXCEPT ![r] = place]

\* A first code is checked against the secret read before.
Verifying == \E v \in Verifies : at[v] = "persisting"

-------------------------------------------------------------------------------
(* beginTotpEnrollment *)

SetupRead(s) ==
    /\ at[s] = "idle"
    /\ Goto(s, IF enabled THEN "done" ELSE "storing")
    /\ UNCHANGED <<account, sessions, lastUsed, local, shown, history, mishaps>>

\* Mutant: the row is written whether it is enabled or not.
BadSetupStore(s) ==
    /\ at[s] = "storing"
    /\ Goto(s, "done")
    /\ secret' = s /\ shown' = shown \cup {s}
    /\ crossed' = (crossed \/ Verifying)
    /\ UNCHANGED <<enabled, codes, version, sessions, lastUsed, local, gone, opened, proven, mishaps>>

\* setPendingTotpSecret does not touch a row that is enabled meanwhile.
SetupStore(s) ==
    /\ at[s] = "storing"
    /\ Goto(s, "done")
    /\ IF enabled THEN UNCHANGED <<secret, shown, crossed>>
       ELSE /\ secret' = s /\ shown' = shown \cup {s}
            /\ crossed' = (crossed \/ Verifying)
    /\ UNCHANGED <<enabled, codes, version, sessions, lastUsed, local, gone, opened, proven, mishaps>>

-------------------------------------------------------------------------------
(* completeTotpEnrollment *)

VerifyRead(v) ==
    /\ at[v] = "idle"
    /\ ~enabled /\ secret \in shown /\ lastUsed # secret
    /\ entered' = [entered EXCEPT ![v] = secret]
    /\ Goto(v, "persisting")
    /\ UNCHANGED <<account, sessions, lastUsed, saw, sawCodes, tries, shown, history, mishaps>>

\* Mutant: the row is written whether it is enabled or not.
BadVerifyPersist(v) ==
    /\ at[v] = "persisting"
    /\ enabled' = TRUE /\ version' = v
    /\ codes' = {v} \X Slot
    /\ proven' = entered[v]
    /\ lastUsed' = entered[v]
    /\ Goto(v, "answering")
    /\ UNCHANGED <<secret, sessions, local, shown, gone, opened, crossed, mishaps>>

\* The row is written unless it is enabled already: then the codes made here must not
\* be handed out. The secret in the row is left as it is.
VerifyPersist(v) ==
    /\ at[v] = "persisting"
    /\ IF enabled
       THEN Goto(v, "done") /\ UNCHANGED <<enabled, version, codes, proven, lastUsed>>
       ELSE /\ enabled' = TRUE /\ version' = v
            /\ codes' = {v} \X Slot
            /\ proven' = entered[v]
            /\ lastUsed' = entered[v]
            /\ Goto(v, "answering")
    /\ UNCHANGED <<secret, sessions, local, shown, gone, opened, crossed, mishaps>>

\* The answer with the backup codes reaches the user.
Answer(v) ==
    /\ at[v] = "answering"
    /\ shown' = shown \cup ({v} \X Slot)
    /\ Goto(v, "done")
    /\ UNCHANGED <<account, sessions, lastUsed, local, history, mishaps>>

-------------------------------------------------------------------------------
(* disableTotp *)

\* The code of the secret in the row, or one of the backup codes there.
Accepted(c) == enabled /\ c # lastUsed /\ (c = secret \/ c \in codes)

DisableRead(d) ==
    /\ at[d] = "idle"
    /\ \E c \in shown :
          /\ Accepted(c)
          /\ entered' = [entered EXCEPT ![d] = c]
    /\ Goto(d, "clearing")
    /\ UNCHANGED <<account, sessions, lastUsed, saw, sawCodes, tries, shown, history, mishaps>>

DisableClear(d) ==
    /\ at[d] = "clearing"
    /\ enabled' = FALSE /\ secret' = None /\ codes' = {} /\ version' = None
    /\ gone' = gone \cup codes
    /\ crossed' = (crossed \/ Verifying)
    /\ Goto(d, "revoking")
    /\ UNCHANGED <<sessions, lastUsed, local, shown, opened, proven, mishaps>>

DisableRevoke(d) ==
    /\ at[d] = "revoking"
    /\ sessions' = {}
    /\ lastUsed' = entered[d]
    /\ Goto(d, "done")
    /\ UNCHANGED <<account, local, shown, history, mishaps>>

-------------------------------------------------------------------------------
(* attemptTotpLogin *)

LoginRead(l) ==
    /\ at[l] = "idle" /\ secret # None
    /\ \E c \in shown :
          /\ Accepted(c)
          /\ entered' = [entered EXCEPT ![l] = c]
          /\ Goto(l, IF c \in Backup THEN "consuming" ELSE "opening")
    /\ saw' = [saw EXCEPT ![l] = version]
    /\ sawCodes' = [sawCodes EXCEPT ![l] = codes]
    /\ UNCHANGED <<account, sessions, lastUsed, tries, shown, history, mishaps>>

\* Mutant: the codes are written whatever is in the column.
BadConsume(l) ==
    /\ at[l] = "consuming"
    /\ IF entered[l] \notin sawCodes[l]
       THEN Goto(l, "done") /\ UNCHANGED <<codes, version, gone>>
       ELSE /\ codes' = sawCodes[l] \ {entered[l]} /\ version' = l
            /\ gone' = gone \cup {entered[l]}
            /\ Goto(l, "opening")
    /\ UNCHANGED <<enabled, secret, sessions, lastUsed, local, shown, opened, proven, crossed, mishaps>>

\* consumeBackupCodeHash: updateTotpBackupCodes writes the codes without this one, if
\* the column is still the one read; every writing gives it a value of its own.
Consume(l) ==
    /\ at[l] = "consuming"
    /\ IF entered[l] \notin sawCodes[l]
       THEN Goto(l, "done") /\ UNCHANGED <<codes, version, gone, tries>>
       ELSE IF version = saw[l]
       THEN /\ codes' = sawCodes[l] \ {entered[l]} /\ version' = l
            /\ gone' = gone \cup {entered[l]}
            /\ tries' = tries
            /\ Goto(l, "opening")
       ELSE /\ tries' = [tries EXCEPT ![l] = @ + 1]
            /\ Goto(l, "reloading")
            /\ UNCHANGED <<codes, version, gone>>
    /\ UNCHANGED <<enabled, secret, sessions, lastUsed, entered, saw, sawCodes, shown,
                   opened, proven, crossed, mishaps>>

Reload(l) ==
    /\ at[l] = "reloading"
    /\ IF enabled /\ version # None /\ tries[l] < Retries
       THEN /\ saw' = [saw EXCEPT ![l] = version]
            /\ sawCodes' = [sawCodes EXCEPT ![l] = codes]
            /\ Goto(l, "consuming")
       ELSE Goto(l, "done") /\ UNCHANGED <<saw, sawCodes>>
    /\ UNCHANGED <<account, sessions, lastUsed, entered, tries, shown, history, mishaps>>

OpenSession(l) ==
    /\ at[l] = "opening"
    /\ sessions' = sessions \cup {l} /\ opened' = opened \cup {l}
    /\ lastUsed' = entered[l]
    /\ Goto(l, "done")
    /\ UNCHANGED <<account, local, shown, gone, proven, crossed, mishaps>>

-------------------------------------------------------------------------------

\* The guard against a repeated code forgets it after two minutes.
Forget ==
    /\ lastUsed # None
    /\ lastUsed' = None
    /\ UNCHANGED <<account, sessions, at, local, shown, history, mishaps>>

\* A database call fails, and the request with it.
RequestFails(r) ==
    /\ at[r] \notin {"idle", "answering", "done"} /\ mishaps < MaxMishaps
    /\ mishaps' = mishaps + 1
    /\ Goto(r, "done")
    /\ UNCHANGED <<account, sessions, lastUsed, local, shown, history>>

\* The server restarts: requests under way are lost, and the guard is empty.
Restart ==
    /\ mishaps < MaxMishaps
    /\ mishaps' = mishaps + 1
    /\ at' = [r \in Request |-> IF at[r] = "idle" THEN "idle" ELSE "done"]
    /\ lastUsed' = None
    /\ UNCHANGED <<account, sessions, local, shown, history>>

Next ==
    \/ \E s \in Setups : SetupRead(s) \/ SetupStore(s)
    \/ \E v \in Verifies : VerifyRead(v) \/ VerifyPersist(v) \/ Answer(v)
    \/ \E d \in Disables : DisableRead(d) \/ DisableClear(d) \/ DisableRevoke(d)
    \/ \E l \in Logins : LoginRead(l) \/ Consume(l) \/ Reload(l) \/ OpenSession(l)
    \/ Forget
    \/ \E r \in Request : RequestFails(r)
    \/ Restart

Spec == Init /\ [][Next]_factorVars

-------------------------------------------------------------------------------

\* No two logins get a session with the same backup code, whatever requests cross.
BackupCodeOnce ==
    \A l, m \in opened :
        entered[l] = entered[m] /\ entered[l] \in Backup => l = m

\* A backup code handed out to the user works, until a login uses it up or its
\* enrolment is cleared: codes that lost the race to enrol are never handed out.
ShownCodesWork == shown \cap Backup \subseteq codes \cup gone

\* The second factor is on for the secret whose code was checked, unless another
\* request wrote the secret while the code was being checked.
SecretWasProven == enabled => secret = proven \/ crossed
================================================================================
