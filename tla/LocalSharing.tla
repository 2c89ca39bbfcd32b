------------------------------- MODULE LocalSharing -------------------------------
(***************************************************************************)
(* lib/server/modules/files/local-sharing.ts: a folder is shared by a row  *)
(* that reserves a name, a bind mount of the folder at Shared/<name> and a *)
(* Samba export of that directory, made in this order and undone in the    *)
(* opposite one. Additions take the lock of their source folder, removals  *)
(* the lock of the share: the two never wait for each other.               *)
(*                                                                         *)
(* Each Task is a request, and the id of the share it adds. A name is the  *)
(* number of the attempt that found it free, all folders having one base   *)
(* name. Row, path and export of a share go by its name.                   *)
(***************************************************************************)
EXTENDS Integers, Sequences

CONSTANTS
    Task, Source,
    None,
    Wish,        \* [Task -> SUBSET Source]: folders each request may ask to share
    MaxName,     \* bound: attempts to find a free name (500 in the code)
    Faulty,      \* what may go wrong: some of FaultKinds
    MaxFaults    \* bound: how often

FaultKinds == {"command", "probe", "database", "outside", "restart"}

ASSUME SharingAssumption ==
    /\ Source \cap Task = {} /\ None \notin Source \cup Task
    /\ Wish \in [Task -> SUBSET Source]
    /\ MaxName \in Nat \ {0} /\ MaxFaults \in Nat
    /\ Faulty \subseteq FaultKinds

VARIABLES
    held, waiters,          \* operationLocks: its keys, and the queue of each
    pc, key, name,          \* where a request stands, its lock, the name of its share
    sawExport, sawMount,    \* what releaseShareExport has found
    row,                    \* name in the row of each share, 0: no row
    mount,                  \* folders mounted on each path, the visible one last
    exported, dirs,         \* names exported by Samba, paths that exist
    wiped,                  \* history: paths emptied while a folder was mounted there
    tainted,                \* history: names something went wrong with, see Taint
    faults

locks == <<held, waiters>>
host  == <<mount, exported, dirs, wiped>>
seen  == <<sawExport, sawMount>>
vars  == <<locks, pc, key, name, seen, row, host, tainted, faults>>

Name == 1..MaxName
Key  == Source \cup Task    \* "source:<folder>" and "share:<id>"

Adding    == {"looking", "reserving", "making", "probing", "mounting", "checking", "exporting"}
Releasing == {"askExport", "askMount", "unexporting", "unmounting", "rechecking", "wiping"}
Working   == Adding \cup Releasing \cup {"reading", "verifying", "deleting"}
Outcome   == {"shared", "removed", "rejected", "lost"}

TypeOK ==
    /\ held \subseteq Key /\ waiters \in [Key -> Seq(Task)]
    /\ pc \in [Task -> {"idle", "waiting"} \cup Working \cup Outcome]
    /\ key \in [Task -> Key \cup {None}]
    /\ name \in [Task -> 0..MaxName]
    /\ sawExport \in [Task -> BOOLEAN] /\ sawMount \in [Task -> BOOLEAN]
    /\ row \in [Task -> 0..MaxName]
    /\ mount \in [Name -> Seq(Source)]
    /\ exported \subseteq Name /\ dirs \subseteq Name
    /\ wiped \subseteq Name /\ tainted \subseteq Name
    /\ faults \in 0..MaxFaults

Init ==
    /\ held = {} /\ waiters = [k \in Key |-> <<>>]
    /\ pc = [t \in Task |-> "idle"]
    /\ key = [t \in Task |-> None]
    /\ name = [t \in Task |-> 0]
    /\ sawExport = [t \in Task |-> FALSE] /\ sawMount = [t \in Task |-> FALSE]
    /\ row = [t \in Task |-> 0]
    /\ mount = [n \in Name |-> <<>>]
    /\ exported = {} /\ dirs = {} /\ wiped = {} /\ tainted = {}
    /\ faults = 0

-------------------------------------------------------------------------------
(* What a request is about *)

Adds(t)    == key[t] \in Source
ShareOf(t) == IF Adds(t) THEN t ELSE key[t]
Mounted(n) == mount[n] # <<>>

\* The folder of a share is the one its addition has locked.
SourceTaken(t) == \E i \in Task : row[i] # 0 /\ key[i] = key[t]
NameTaken(n)   == \E i \in Task : row[i] = n

Fault(f) == /\ f \in Faulty /\ faults < MaxFaults
            /\ faults' = faults + 1

\* A share of this name got out of the code's hands: its removal overlapped its
\* addition, a failed addition could not be undone, or a probe was misled.
Taint(n) == tainted' = tainted \cup {n}

-------------------------------------------------------------------------------
(* withOperationLock *)

First(k) == IF k \in Source THEN "looking" ELSE "reading"

Acquire(t, k) ==
    /\ key' = [key EXCEPT ![t] = k]
    /\ IF k \in held
       THEN /\ waiters' = [waiters EXCEPT ![k] = Append(@, t)]
            /\ pc' = [pc EXCEPT ![t] = "waiting"]
            /\ UNCHANGED held
       ELSE /\ held' = held \cup {k}
            /\ pc' = [pc EXCEPT ![t] = First(k)]
            /\ UNCHANGED waiters

\* Mutant: an entry is deleted without waking those who wait.
EndSilently(t, outcome) ==
    /\ held' = held \ {key[t]}
    /\ pc' = [pc EXCEPT ![t] = outcome]
    /\ UNCHANGED waiters

\* A request answers and hands its lock to the first who waits for it.
End(t, outcome) ==
    LET k == key[t]
        ws == waiters[k]
    IN IF ws = <<>>
       THEN /\ held' = held \ {k}
            /\ pc' = [pc EXCEPT ![t] = outcome]
            /\ UNCHANGED waiters
       ELSE /\ waiters' = [waiters EXCEPT ![k] = Tail(ws)]
            /\ pc' = [pc EXCEPT ![t] = outcome, ![Head(ws)] = First(k)]
            /\ UNCHANGED held

Goto(t, p) == pc' = [pc EXCEPT ![t] = p] /\ UNCHANGED locks

AskAdd(t, s) ==
    /\ pc[t] = "idle" /\ s \in Wish[t]
    /\ Acquire(t, s)
    /\ name' = [name EXCEPT ![t] = 1]
    /\ UNCHANGED <<seen, row, host, tainted, faults>>

\* The id comes from a listing, which shows every row.
AskRemove(t, i) ==
    /\ pc[t] = "idle" /\ row[i] # 0
    /\ Acquire(t, i)
    /\ UNCHANGED <<name, seen, row, host, tainted, faults>>

-------------------------------------------------------------------------------
(* addLocalFolderShare *)

Look(t) ==
    /\ pc[t] = "looking"
    /\ IF SourceTaken(t) THEN End(t, "rejected") ELSE Goto(t, "reserving")
    /\ UNCHANGED <<key, name, seen, row, host, tainted, faults>>

\* reserveLocalShare: one attempt, an INSERT that the unique indexes may refuse.
Reserve(t) ==
    /\ pc[t] = "reserving"
    /\ IF NameTaken(name[t])
       THEN /\ IF name[t] < MaxName
               THEN /\ name' = [name EXCEPT ![t] = @ + 1]
                    /\ UNCHANGED <<pc, locks>>
               ELSE End(t, "rejected") /\ UNCHANGED name
            /\ UNCHANGED row
       ELSE /\ row' = [row EXCEPT ![t] = name[t]]
            /\ Goto(t, "making")
            /\ UNCHANGED name
    /\ UNCHANGED <<key, seen, host, tainted, faults>>

MakeDir(t) ==
    /\ pc[t] = "making"
    /\ dirs' = dirs \cup {name[t]}
    /\ Goto(t, "probing")
    /\ UNCHANGED <<key, name, seen, row, mount, exported, wiped, tainted, faults>>

Probe(t) ==
    /\ pc[t] = "probing"
    /\ Goto(t, IF Mounted(name[t]) THEN "checking" ELSE "mounting")
    /\ UNCHANGED <<key, name, seen, row, host, tainted, faults>>

Mount(t) ==
    /\ pc[t] = "mounting" /\ name[t] \in dirs
    /\ mount' = [mount EXCEPT ![name[t]] = Append(@, key[t])]
    /\ Goto(t, "checking")
    /\ UNCHANGED <<key, name, seen, row, exported, dirs, wiped, tainted, faults>>

Check(t) ==
    /\ pc[t] = "checking"
    /\ IF name[t] \in exported THEN End(t, "shared") ELSE Goto(t, "exporting")
    /\ UNCHANGED <<key, name, seen, row, host, tainted, faults>>

Export(t) ==
    /\ pc[t] = "exporting" /\ name[t] \in dirs
    /\ exported' = exported \cup {name[t]}
    /\ End(t, "shared")
    /\ UNCHANGED <<key, name, seen, row, mount, dirs, wiped, tainted, faults>>

\* Mutant: a failed step ends the request, and only the row is taken back.
StepFailsUndoingRow(t) ==
    /\ pc[t] \in {"making", "mounting", "exporting"}
    /\ IF pc[t] # "making" /\ name[t] \notin dirs THEN UNCHANGED faults ELSE Fault("command")
    /\ Goto(t, "deleting")
    /\ UNCHANGED <<key, name, seen, row, host, tainted>>

\* Mutant: a mount that fails is logged.
StepFailureLogged(t) ==
    /\ pc[t] = "mounting"
    /\ Fault("command")
    /\ Goto(t, "checking")
    /\ UNCHANGED <<key, name, seen, row, host, tainted>>

\* mkdir, mount or net fails (the last two also when the directory is gone): the
\* catch undoes what was done.
StepFails(t) ==
    /\ pc[t] \in {"making", "mounting", "exporting"}
    /\ IF pc[t] # "making" /\ name[t] \notin dirs THEN UNCHANGED faults ELSE Fault("command")
    /\ Goto(t, "askExport")
    /\ UNCHANGED <<key, name, seen, row, host, tainted>>

-------------------------------------------------------------------------------
(* removeLocalFolderShare up to the release *)

Read(t) ==
    /\ pc[t] = "reading"
    /\ LET i == ShareOf(t)
       IN IF row[i] = 0
          THEN End(t, "rejected") /\ UNCHANGED <<name, tainted>>
          ELSE /\ name' = [name EXCEPT ![t] = row[i]]
               /\ IF pc[i] \in Outcome THEN UNCHANGED tainted ELSE Taint(row[i])
               /\ Goto(t, "askExport")
    /\ UNCHANGED <<key, seen, row, host, faults>>

-------------------------------------------------------------------------------
(* releaseShareExport, called by both with tolerateMissing *)

\* It throws: a removal looks whether the folder is still mounted, an addition
\* goes on to delete its row.
Throws(t) ==
    IF Adds(t) THEN Goto(t, "deleting") /\ Taint(name[t])
               ELSE Goto(t, "verifying") /\ UNCHANGED tainted

AskExport(t) ==
    /\ pc[t] = "askExport"
    /\ sawExport' = [sawExport EXCEPT ![t] = name[t] \in exported]
    /\ Goto(t, "askMount")
    /\ UNCHANGED <<key, name, sawMount, row, host, tainted, faults>>

AfterUnexport(mounted) == IF mounted THEN "unmounting" ELSE "rechecking"

AskMount(t) ==
    /\ pc[t] = "askMount"
    /\ sawMount' = [sawMount EXCEPT ![t] = Mounted(name[t])]
    /\ Goto(t, IF sawExport[t] THEN "unexporting" ELSE AfterUnexport(Mounted(name[t])))
    /\ UNCHANGED <<key, name, sawExport, row, host, tainted, faults>>

\* An export that is gone already is no error.
Unexport(t) ==
    /\ pc[t] = "unexporting"
    /\ exported' = exported \ {name[t]}
    /\ Goto(t, AfterUnexport(sawMount[t]))
    /\ UNCHANGED <<key, name, seen, row, mount, dirs, wiped, tainted, faults>>

\* A missing permission is tolerated when nothing is mounted, other errors are not.
UnexportFails(t) ==
    /\ pc[t] = "unexporting" /\ name[t] \in exported
    /\ Fault("command")
    /\ \/ Throws(t)
       \/ ~sawMount[t] /\ Goto(t, "rechecking") /\ UNCHANGED tainted
    /\ UNCHANGED <<key, name, seen, row, host>>

Uncovered(n) == [mount EXCEPT ![n] = IF @ = <<>> THEN @ ELSE SubSeq(@, 1, Len(@) - 1)]

\* umount, or umount -l when it is busy; a mount that is gone is no error.
Unmount(t) ==
    /\ pc[t] = "unmounting"
    /\ mount' = Uncovered(name[t])
    /\ Goto(t, "rechecking")
    /\ UNCHANGED <<key, name, seen, row, exported, dirs, wiped, tainted, faults>>

\* Mutant: removing the directory is tried whatever umount said.
UnmountFailureIgnored(t) ==
    /\ pc[t] = "unmounting" /\ Mounted(name[t])
    /\ Fault("command")
    /\ Goto(t, "wiping")
    /\ UNCHANGED <<key, name, seen, row, host, tainted>>

UnmountFails(t) ==
    /\ pc[t] = "unmounting" /\ Mounted(name[t])
    /\ Fault("command")
    /\ Throws(t)
    /\ UNCHANGED <<key, name, seen, row, host>>

\* The safety guard before the directory is removed.
Recheck(t) ==
    /\ pc[t] = "rechecking"
    /\ IF Mounted(name[t]) THEN Throws(t) ELSE Goto(t, "wiping") /\ UNCHANGED tainted
    /\ UNCHANGED <<key, name, seen, row, host, faults>>

\* rm -r: where a folder is mounted it empties the folder, then the path is busy.
Wipe(t) ==
    /\ pc[t] = "wiping"
    /\ IF Mounted(name[t])
       THEN wiped' = wiped \cup {name[t]} /\ Throws(t) /\ UNCHANGED dirs
       ELSE dirs' = dirs \ {name[t]} /\ Goto(t, "deleting") /\ UNCHANGED <<wiped, tainted>>
    /\ UNCHANGED <<key, name, seen, row, mount, exported, faults>>

WipeFails(t) ==
    /\ pc[t] = "wiping" /\ ~Mounted(name[t])
    /\ Fault("command")
    /\ Throws(t)
    /\ UNCHANGED <<key, name, seen, row, host>>

\* getShareExportActivity: the row of a share that is still mounted is kept.
Verify(t) ==
    /\ pc[t] = "verifying"
    /\ IF Mounted(name[t]) THEN End(t, "rejected") ELSE Goto(t, "deleting")
    /\ UNCHANGED <<key, name, seen, row, host, tainted, faults>>

\* deleteLocalShareFromDb, and the answer.
Delete(t) ==
    /\ pc[t] = "deleting"
    /\ row' = [row EXCEPT ![ShareOf(t)] = 0]
    /\ End(t, IF Adds(t) THEN "rejected" ELSE "removed")
    /\ UNCHANGED <<key, name, seen, host, tainted, faults>>

-------------------------------------------------------------------------------
(* What goes wrong *)

\* A query is rejected. In each of its four places the request ends with an error.
QueryFails(t) ==
    /\ pc[t] \in {"looking", "reserving", "reading", "deleting"}
    /\ Fault("database")
    /\ End(t, "rejected")
    /\ UNCHANGED <<key, name, seen, row, host, tainted>>

\* isMountPoint takes any error of its command for a no, ...
MountProbeMisled(t) ==
    /\ pc[t] \in {"probing", "askMount", "rechecking", "verifying"}
    /\ Mounted(name[t]) /\ Fault("probe")
    /\ \/ /\ pc[t] # "askMount"
          /\ Goto(t, CASE pc[t] = "probing"    -> "mounting"
                       [] pc[t] = "rechecking" -> "wiping"
                       [] OTHER                -> "deleting")
          /\ UNCHANGED seen
       \/ /\ pc[t] = "askMount"
          /\ sawMount' = [sawMount EXCEPT ![t] = FALSE]
          /\ Goto(t, IF sawExport[t] THEN "unexporting" ELSE "rechecking")
          /\ UNCHANGED sawExport
    /\ Taint(name[t])
    /\ UNCHANGED <<key, name, row, host>>

\* ... and so does isUsersharePresent.
ExportProbeMisled(t) ==
    /\ name[t] \in exported /\ Fault("probe")
    /\ \/ pc[t] = "checking" /\ Goto(t, "exporting") /\ UNCHANGED seen
       \/ /\ pc[t] = "askExport"
          /\ sawExport' = [sawExport EXCEPT ![t] = FALSE]
          /\ Goto(t, "askMount")
          /\ UNCHANGED sawMount
    /\ UNCHANGED <<key, name, row, host, tainted>>

\* A person, or a restart of the host, takes a mount away.
Detach(n) ==
    /\ Fault("outside") /\ Mounted(n)
    /\ mount' = Uncovered(n)
    /\ IF \E t \in Task : pc[t] \in Adding /\ name[t] = n THEN Taint(n) ELSE UNCHANGED tainted
    /\ UNCHANGED <<locks, pc, key, name, seen, row, exported, dirs, wiped>>

\* The server restarts: requests and locks are gone, rows, mounts and exports stay.
Restart ==
    /\ Fault("restart")
    /\ held' = {} /\ waiters' = [k \in Key |-> <<>>]
    /\ pc' = [t \in Task |-> IF pc[t] = "waiting" \/ pc[t] \in Working THEN "lost" ELSE pc[t]]
    /\ UNCHANGED <<key, name, seen, row, host, tainted>>

-------------------------------------------------------------------------------
\* The next step of a request that has its lock.
Step(t) ==
    \/ Look(t) \/ Reserve(t) \/ MakeDir(t) \/ Probe(t) \/ Mount(t) \/ Check(t) \/ Export(t)
    \/ StepFails(t)
    \/ Read(t)
    \/ AskExport(t) \/ AskMount(t) \/ Unexport(t) \/ UnexportFails(t)
    \/ Unmount(t) \/ UnmountFails(t) \/ Recheck(t) \/ Wipe(t) \/ WipeFails(t)
    \/ Verify(t) \/ Delete(t)
    \/ QueryFails(t) \/ MountProbeMisled(t) \/ ExportProbeMisled(t)

Next ==
    \/ \E t \in Task : Step(t)
    \/ \E t \in Task, s \in Source : AskAdd(t, s)
    \/ \E t, i \in Task : AskRemove(t, i)
    \/ \E n \in Name : Detach(n)
    \/ Restart

Spec == Init /\ [][Next]_vars

\* Commands have a timeout of 15 seconds and queries that of the pool: a request
\* that has its lock takes its next step, as a success or as a failure.
FairSpec == Spec /\ \A t \in Task : WF_vars(Step(t))

-------------------------------------------------------------------------------
(* Properties *)

\* A lock has one holder: from the moment a request leaves, no request that comes
\* in gets ahead of the one that was woken (acquireOperationLock and
\* releaseOperationLock).
OneHolder ==
    \A t, u \in Task :
        pc[t] \in Working /\ pc[u] \in Working /\ key[t] = key[u] => t = u

\* The lock of the source folder does its work: an addition that found its folder
\* unshared finds it so when it inserts the row (addLocalFolderShare).
SourceFree == \A t \in Task : pc[t] = "reserving" => ~SourceTaken(t)

\* Where a folder is mounted there is a row of that name, and it is the folder of
\* that row, mounted once: what is listed is what is shared, and a name given
\* away again does not show the folder of its last owner.
MountsHaveRows ==
    \A n \in Name \ tainted :
        Mounted(n) => \E i \in Task : row[i] = n /\ mount[n] = <<key[i]>>

\* Removing the directory of a share never empties the folder that was shared,
\* except for a share that got out of hand (releaseShareExport).
WipedOnlyWhenTainted == wiped \subseteq tainted

\* The comment of releaseShareExport without exception: "never remove the exported
\* directory while it is still mounted".
NeverWipesMounted == wiped = {}

\* An addition that answers has a row, and its own folder is mounted and exported
\* under the name it answers with.
SharedAsAsked ==
    [][\A t \in Task : pc[t] # "shared" /\ pc'[t] = "shared" =>
          \/ name[t] \in tainted
          \/ row[t] = name[t] /\ mount[name[t]] = <<key[t]>> /\ name[t] \in exported']_vars

\* Every request that waits for a lock gets an answer, unless the server restarts.
EveryRequestEnds == \A t \in Task : pc[t] = "waiting" ~> pc[t] \in Outcome
================================================================================
