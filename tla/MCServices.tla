------------------------------- MODULE MCServices -------------------------------
(***************************************************************************)
(* Components that share no state, checked by one run: what a behaviour    *)
(* exercises is chosen at its start. Some are taken in two parts, each     *)
(* with bounds of its own.                                                 *)
(***************************************************************************)
EXTENDS TwoFactor, ScheduledTasks, NetworkStorage, BackupRestore, FileManager, TLC

CONSTANTS
    t1, t2, c1, c2, c3,            \* scheduled tasks
    b1, b2, q1, q2,                \* backups and restores
    na, nb, fa, fb, home, n1, n2, m1,   \* files
    s1, v1                         \* two factors

VARIABLE part

WishedFor == (t1 :> {<<c1, TRUE>>, <<c2, FALSE>>, <<c3, TRUE>>}) @@ (t2 :> {<<c1, TRUE>>})

A == <<na, 0>>
B == <<nb, 0>>
Lay(p, q, r) ==
    (fa :> p) @@ (fb :> q) @@ (home :> r) @@ (n1 :> Unborn) @@ (n2 :> Unborn) @@ (m1 :> Unborn)
TwoFiles == Lay(<<Root, A>>, <<Root, B>>, Unborn)
AnyPlace == {TwoFiles, Lay(<<home, A>>, <<Bin, A>>, <<Root, A>>), Lay(<<home, B>>, <<Root, B>>, <<Root, A>>)}

\* Stacks that go and a store registry that is new, or both there.
AnyLayout == {(0 :> {"stacks"}) @@ (1 :> {"store"}), (0 :> Optional) @@ (1 :> Optional)}

Asked(does, p, t, m) == [op |-> does, path |-> p, to |-> t, mode |-> m]
Wanted ==
    {Asked(o, <<Root, B>>, <<Root>>, Nothing) : o \in {"createFolder", "createFile", "upload", "save"}}
    \cup {Asked("move", <<Root, A, A>>, <<Root>>, m) : m \in {"replace", "keep-both"}}
    \cup {Asked("move", <<Root, B>>, <<Root, A>>, m) : m \in {"replace", "skip"}}
    \cup {Asked("move", <<Root, A>>, <<Root, A>>, "replace"),
          Asked("copy", <<Root, B>>, <<Root, A>>, "replace"),
          Asked("copy", <<Root, A, A>>, <<Root>>, "keep-both"),
          Asked("rename", <<Root, A>>, <<Root, B>>, Nothing),
          Asked("move", <<Bin, A>>, <<Root>>, "keep-both")}
    \cup {Asked("trash", p, <<Root>>, Nothing) : p \in {<<Root, A>>, <<Root, A, A>>, <<Root, B>>}}
    \cup {Asked("restore", <<Bin, A>>, <<Root>>, m) : m \in {"fail", "replace", "keep-both"}}
    \cup {Asked("delete", p, <<Root>>, Nothing) : p \in {<<Bin, A>>, <<Bin, A, A>>, <<Bin>>}}
    \cup {Asked("empty", <<Bin>>, <<Root>>, Nothing)}

ASSUME ServicesAssumption ==
    /\ ScheduledTasksAssumption /\ NetworkStorageAssumption
    /\ BackupRestoreAssumption /\ FileManagerAssumption

-------------------------------------------------------------------------------

servicesVars == <<part, factorVars, tasksVars, networkVars, backupVars, filesVars>>

ServicesInit ==
    /\ part \in {"tasks", "edited tasks", "network", "backups", "restores", "files",
                 "enrolling", "logging in"}
    /\ TasksInit /\ NetworkInit /\ BackupInit /\ Init
    /\ part = "backups" <=> has[0] # Optional
    /\ FilesInit /\ (part # "files" => place = TwoFiles /\ starred = {})

\* Two tasks and one request or fault, or one task and two requests.
TasksOnly ==
    /\ part \in {"tasks", "edited tasks"} /\ TasksNext
    /\ \/ part = "tasks" /\ asked' + faults' < 2
       \/ part = "edited tasks" /\ t2 \in fresh' /\ faults' = 0

\* Two backups and one restore, with a change or an outage, or two restores, an outage
\* and a backup by the timer.
BackupsOnly ==
    /\ part \in {"backups", "restores"} /\ BackupNext
    /\ \/ part = "backups" /\ rstep'[q2] = "idle" /\ newest' + outages' < 2
       \/ part = "restores" /\ bstep'[b1] = "idle" /\ clock' = 1 /\ newest' = 0

\* Every request but the logins, or one enrolment and two logins.
FactorOnly ==
    /\ part \in {"enrolling", "logging in"} /\ Next
    /\ \/ part = "enrolling" /\ \A l \in Logins : at'[l] = "idle"
       \/ part = "logging in" /\ \A r \in (Setups \ {s1}) \cup (Verifies \ {v1}) : at'[r] = "idle"

ServicesNext ==
    \/ TasksOnly /\ UNCHANGED <<part, factorVars, networkVars, backupVars, filesVars>>
    \/ part = "network" /\ NetworkNext /\ UNCHANGED <<part, factorVars, tasksVars, backupVars, filesVars>>
    \/ BackupsOnly /\ UNCHANGED <<part, factorVars, tasksVars, networkVars, filesVars>>
    \/ part = "files" /\ FilesNext /\ UNCHANGED <<part, factorVars, tasksVars, networkVars, backupVars>>
    \/ FactorOnly /\ UNCHANGED <<part, tasksVars, networkVars, backupVars, filesVars>>

-------------------------------------------------------------------------------
(* Fairness: steps that code under way takes; nothing forces requests, edits, faults *)
(* or the clock. *)

FairTasks ==
    LET On == part \in {"tasks", "edited tasks"}
    IN /\ \A k \in Tick : WF_tasksVars(On /\ Progress(k))
       /\ \A t \in Task : WF_tasksVars(On /\ Runs(t))

FairNetwork ==
    /\ WF_networkVars(part = "network" /\ (WatcherTick \/ Steps(Watcher)))
    /\ \A r \in ShareRequest : WF_networkVars(part = "network" /\ Steps(r))

FairRestores ==
    \A q \in Restores : WF_backupVars(part \in {"backups", "restores"} /\ ScriptSteps(q))

ServicesSpec ==
    /\ ServicesInit /\ [][ServicesNext]_servicesVars
    /\ FairTasks /\ FairNetwork /\ FairRestores

-------------------------------------------------------------------------------

\* The component that a behaviour exercises stays in its types.
TypesOK ==
    CASE part \in {"tasks", "edited tasks"}     -> TasksTypeOK
      [] part = "network"                       -> NetworkTypeOK
      [] part \in {"backups", "restores"}       -> BackupTypeOK
      [] part = "files"                         -> FilesTypeOK
      [] part \in {"enrolling", "logging in"}   -> TypeOK
=============================================================================
