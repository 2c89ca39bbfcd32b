----------------------------- MODULE AppDeployment -----------------------------
(***************************************************************************)
(* What the operations of lib/server/modules/apps/operations.ts do to an   *)
(* app: its app_stacks row, its docker-compose.yml and the .bak beside it, *)
(* and its containers.  Each app has at most one operation at a time,      *)
(* which is what StoreOperations shows of the guard; operations of other   *)
(* apps, scheduled restarts, new catalog versions and restarts of the      *)
(* server interleave with it at every await.                               *)
(*                                                                         *)
(* A compose file is abstracted to the image version it names and the host *)
(* port it publishes.  Progress patches are not modelled here: one that    *)
(* fails makes the operation throw at the step it belongs to.              *)
(***************************************************************************)
EXTENDS Integers, FiniteSets

CONSTANTS
    App,
    Port,           \* host ports (assertValidPort: 1024..65535)
    Requests,       \* bound: Requests[a], the kinds of operation asked for app a
    MaxVersion,     \* bound: image versions the catalog goes through
    MaxCrashes,     \* bound: crashes or restarts of the server
    Faulty          \* what may fail: subset of {"docker", "database", "files", "restore"}

Kind == {"install", "redeploy", "update", "uninstall", "start", "stop", "restart"}

ASSUME DeploymentAssumption ==
    /\ Requests \in [App -> SUBSET Kind]
    /\ MaxVersion \in Nat /\ MaxCrashes \in Nat
    /\ Faulty \subseteq {"docker", "database", "files", "restore"}
    /\ 0 \notin Port

VARIABLES
    catalog,    \* version the store catalog offers
    stack,      \* app_stacks: web_ui_port of an installed app, 0 when no row
    compose,    \* the app's docker-compose.yml
    backup,     \* docker-compose.yml.bak
    running,    \* the file its containers were created from
    up,         \* are they running
    task,       \* the operation in progress
    result,     \* outcome of the last operation
    crashes

vars == <<catalog, stack, compose, backup, running, up, task, result, crashes>>

File   == [version : 0..MaxVersion, port : Port]
NoFile == [version |-> -1, port |-> 0]

Installed(a) == stack[a] # 0

\* at: the next step; next: the file the operation wants; orig: the file an
\* update found (installedComposeSource).
Idle == [kind |-> "none", at |-> "idle", next |-> NoFile, orig |-> NoFile]

Step == {"idle", "plan", "write", "backup", "swap", "pull", "up", "health", "restore",
         "unrestored", "reup", "discard", "tidy", "record", "flag", "down", "cleanup", "delete", "act"}

TypeOK ==
    /\ catalog \in 0..MaxVersion
    /\ stack \in [App -> Port \cup {0}]
    /\ compose \in [App -> File \cup {NoFile}]
    /\ backup \in [App -> File \cup {NoFile}]
    /\ running \in [App -> File \cup {NoFile}]
    /\ up \in [App -> BOOLEAN]
    /\ task \in [App -> [kind : Kind \cup {"none"}, at : Step,
                         next : File \cup {NoFile}, orig : File \cup {NoFile}]]
    /\ result \in [App -> {"none", "success", "error"}]
    /\ crashes \in 0..MaxCrashes

Init ==
    /\ catalog = 0
    /\ stack = [a \in App |-> 0]
    /\ compose = [a \in App |-> NoFile]
    /\ backup = [a \in App |-> NoFile]
    /\ running = [a \in App |-> NoFile]
    /\ up = [a \in App |-> FALSE]
    /\ task = [a \in App |-> Idle]
    /\ result = [a \in App |-> "none"]
    /\ crashes = 0

-------------------------------------------------------------------------------
(* Helpers *)

files == <<compose, backup>>
host  == <<running, up>>
world == <<catalog, crashes>>

At(a, kinds, step) == task[a].kind \in kinds /\ task[a].at = step

Proceed(a, step) == task' = [task EXCEPT ![a].at = step] /\ UNCHANGED result

\* executeStoreOperation writes the outcome and releases the guard.
Finish(a, outcome) ==
    /\ task' = [task EXCEPT ![a] = Idle]
    /\ result' = [result EXCEPT ![a] = outcome]

\* The last patch of an operation that has done its work may fail.
Complete(a) == Finish(a, "success") \/ ("database" \in Faulty /\ Finish(a, "error"))

\* Mutant: the health check is outside the try of an update.
ThrowFromHealth(a) ==
    IF task[a].kind = "update" /\ task[a].at \in {"swap", "pull", "up"}
    THEN Proceed(a, "restore")
    ELSE Finish(a, "error")

\* An error: an update that has its backup goes to its catch block first.
Throw(a) ==
    IF task[a].kind = "update" /\ task[a].at \in {"swap", "pull", "up", "health"}
    THEN Proceed(a, "restore")
    ELSE Finish(a, "error")

\* Docker refuses to publish a port a running container already publishes.
PortFree(a, port) == \A b \in App \ {a} : ~(up[b] /\ running[b].port = port)

Deploys == {"install", "redeploy", "update"}

-------------------------------------------------------------------------------
Begin(a, kind) ==
    /\ task[a] = Idle
    /\ task' = [task EXCEPT ![a] = [Idle EXCEPT !.kind = kind, !.at = "plan"]]
    /\ result' = [result EXCEPT ![a] = "none"]
    /\ UNCHANGED <<stack, files, host, world>>

(* runInstallOrRedeployOperation *)

\* The compose source is the one in the request, which may name any version
\* published so far, else the installed file, else the catalog's; the port is
\* checked against the rows of the other apps.
PlanInstall(a) ==
    /\ At(a, {"install", "redeploy"}, "plan")
    /\ \E port \in Port :
          IF \/ task[a].kind = "redeploy" /\ ~Installed(a)
             \/ \E b \in App \ {a} : stack[b] = port
          THEN Finish(a, "error")
          ELSE \E version \in 0..catalog :
                  /\ task' = [task EXCEPT ![a].at = "write",
                                          ![a].next = [version |-> version, port |-> port]]
                  /\ UNCHANGED result
    /\ UNCHANGED <<stack, files, host, world>>

\* materializeInlineStackFiles
Materialize(a) ==
    /\ At(a, {"install", "redeploy"}, "write")
    /\ compose' = [compose EXCEPT ![a] = task[a].next]
    /\ Proceed(a, "pull") \/ ("files" \in Faulty /\ Finish(a, "error"))
    /\ UNCHANGED <<stack, backup, host, world>>

(* runUpdateOperation *)

\* It reads the installed file and the catalog's, and gives up when the app
\* is not installed, the file is missing or the services differ.
PlanUpdate(a) ==
    /\ At(a, {"update"}, "plan")
    /\ \/ Finish(a, "error")
       \/ /\ Installed(a) /\ compose[a] # NoFile
          /\ compose[a].version = catalog
          /\ Proceed(a, "flag")
       \/ /\ Installed(a) /\ compose[a] # NoFile
          /\ compose[a].version # catalog
          /\ task' = [task EXCEPT ![a].at = "backup", ![a].orig = compose[a],
                                  ![a].next = [compose[a] EXCEPT !.version = catalog]]
          /\ UNCHANGED result
    /\ UNCHANGED <<stack, files, host, world>>

\* Mutant: the file is replaced before it is copied.
BackUpLate(a) ==
    /\ At(a, {"update"}, "backup")
    /\ compose' = [compose EXCEPT ![a] = task[a].next]
    /\ backup' = [backup EXCEPT ![a] = task[a].next]
    /\ Proceed(a, "swap")
    /\ UNCHANGED <<stack, host, world>>

BackUp(a) ==
    /\ At(a, {"update"}, "backup")
    /\ backup' = [backup EXCEPT ![a] = compose[a]]
    /\ Proceed(a, "swap")
    /\ UNCHANGED <<stack, compose, host, world>>

WriteUpdate(a) ==
    /\ At(a, {"update"}, "swap")
    /\ compose' = [compose EXCEPT ![a] = task[a].next]
    /\ Proceed(a, "pull")
    /\ UNCHANGED <<stack, backup, host, world>>

(* Both: pull, up, health check *)

Pull(a) ==
    /\ At(a, Deploys, "pull")
    /\ Proceed(a, "up")
    /\ UNCHANGED <<stack, files, host, world>>

\* docker compose up -d creates the containers from the file as it is now.
ComposeUp(a) ==
    /\ running' = [running EXCEPT ![a] = compose[a]]
    /\ up' = [up EXCEPT ![a] = TRUE]

\* It may also fail with some containers replaced, stopped or untouched.
ComposeUpFails(a) ==
    /\ \E file \in {running[a], compose[a]} : running' = [running EXCEPT ![a] = file]
    /\ \E b \in {FALSE, up[a]} : up' = [up EXCEPT ![a] = b]

Up(a) ==
    /\ At(a, Deploys, "up")
    /\ PortFree(a, compose[a].port)
    /\ ComposeUp(a)
    /\ Proceed(a, "health")
    /\ UNCHANGED <<stack, files, world>>

\* Mutant: a failed docker compose up is only logged.
UpFailureLogged(a) ==
    /\ At(a, Deploys, "up")
    /\ "docker" \in Faulty \/ ~PortFree(a, compose[a].port)
    /\ ComposeUpFails(a)
    /\ Proceed(a, "health")
    /\ UNCHANGED <<stack, files, world>>

UpFails(a) ==
    /\ At(a, Deploys, "up")
    /\ "docker" \in Faulty \/ ~PortFree(a, compose[a].port)
    /\ ComposeUpFails(a)
    /\ Throw(a)
    /\ UNCHANGED <<stack, files, world>>

\* waitForDeploymentHealth
Healthy(a) ==
    /\ At(a, Deploys, "health")
    /\ up[a]
    /\ Proceed(a, IF task[a].kind = "update" THEN "tidy" ELSE "record")
    /\ UNCHANGED <<stack, files, host, world>>

\* The catch and the finally of an update.
Restore(a) ==
    /\ At(a, {"update"}, "restore")
    /\ compose' = [compose EXCEPT ![a] = backup[a]]
    /\ Proceed(a, "reup")
    /\ UNCHANGED <<stack, backup, host, world>>

RestoreFails(a) ==
    /\ At(a, {"update"}, "restore")
    /\ "restore" \in Faulty
    /\ Proceed(a, "unrestored")
    /\ UNCHANGED <<stack, files, host, world>>

ReUp(a) ==
    /\ At(a, {"update"}, "reup")
    /\ \/ PortFree(a, compose[a].port) /\ ComposeUp(a)
       \/ /\ "docker" \in Faulty \/ ~PortFree(a, compose[a].port)
          /\ ComposeUpFails(a)
    /\ Proceed(a, "discard")
    /\ UNCHANGED <<stack, files, world>>

DropBackup(a) ==
    /\ task[a].at \in {"discard", "unrestored", "tidy"}
    /\ \/ backup' = [backup EXCEPT ![a] = NoFile]
       \/ "files" \in Faulty /\ UNCHANGED backup
    /\ IF task[a].at = "tidy" THEN Proceed(a, "record") ELSE Finish(a, "error")
    /\ UNCHANGED <<stack, compose, host, world>>

(* upsertInstalledStack, then updateStackUpdateStatus *)

Record(a) ==
    /\ At(a, Deploys, "record")
    /\ stack' = [stack EXCEPT ![a] = IF task[a].kind = "update" THEN @ ELSE task[a].next.port]
    /\ Proceed(a, "flag")
    /\ UNCHANGED <<files, host, world>>

Flag(a) ==
    /\ At(a, Deploys, "flag")
    /\ Complete(a)
    /\ UNCHANGED <<stack, files, host, world>>

(* runUninstallOperation *)

PlanUninstall(a) ==
    /\ At(a, {"uninstall"}, "plan")
    /\ Proceed(a, IF Installed(a) THEN "down" ELSE "delete")
    /\ UNCHANGED <<stack, files, host, world>>

\* runComposeCommand runs in the stack directory: without it, no spawn.
Down(a) ==
    /\ At(a, {"uninstall"}, "down")
    /\ compose[a] # NoFile
    /\ running' = [running EXCEPT ![a] = NoFile]
    /\ up' = [up EXCEPT ![a] = FALSE]
    /\ Proceed(a, "cleanup")
    /\ UNCHANGED <<stack, files, world>>

\* Mutant: a failed docker compose down does not stop the uninstall.
DownFailureIgnored(a) ==
    /\ At(a, {"uninstall"}, "down")
    /\ "docker" \in Faulty \/ compose[a] = NoFile
    /\ Proceed(a, "cleanup")
    /\ UNCHANGED <<stack, files, host, world>>

DownFails(a) ==
    /\ At(a, {"uninstall"}, "down")
    /\ "docker" \in Faulty \/ compose[a] = NoFile
    /\ \E b \in {FALSE, up[a]} : up' = [up EXCEPT ![a] = b]
    /\ Finish(a, "error")
    /\ UNCHANGED <<stack, files, running, world>>

\* cleanupComposeDataOnUninstall removes the stack directory.
Cleanup(a) ==
    /\ At(a, {"uninstall"}, "cleanup")
    /\ compose' = [compose EXCEPT ![a] = NoFile]
    /\ backup' = [backup EXCEPT ![a] = NoFile]
    /\ Proceed(a, "delete")
    /\ UNCHANGED <<stack, host, world>>

DeleteRow(a) ==
    /\ At(a, {"uninstall"}, "delete")
    /\ stack' = [stack EXCEPT ![a] = 0]
    /\ Complete(a)
    /\ UNCHANGED <<files, host, world>>

(* runRuntimeLifecycleOperation *)

PlanLifecycle(a) ==
    /\ At(a, {"start", "stop", "restart"}, "plan")
    /\ IF Installed(a) THEN Proceed(a, "act") ELSE Finish(a, "error")
    /\ UNCHANGED <<stack, files, host, world>>

Act(a) ==
    /\ At(a, {"start", "stop", "restart"}, "act")
    /\ compose[a] # NoFile /\ running[a] # NoFile
    /\ \/ task[a].kind = "stop" /\ up' = [up EXCEPT ![a] = FALSE]
       \/ /\ task[a].kind # "stop"
          /\ PortFree(a, running[a].port)
          /\ up' = [up EXCEPT ![a] = TRUE]
    /\ Complete(a)
    /\ UNCHANGED <<stack, files, running, world>>

\* Mutant: the health check has no deadline.
FailsButForever(a) ==
    /\ \/ "docker" \in Faulty /\ task[a].at \in {"pull", "act"}
       \/ "database" \in Faulty /\ task[a].at \in {"write", "backup", "pull", "up",
                                                  "record", "flag", "down",
                                                  "cleanup", "delete", "act"}
       \/ "files" \in Faulty /\ task[a].at \in {"write", "backup", "swap", "cleanup"}
       \/ At(a, {"start", "restart"}, "act") /\ ~PortFree(a, running[a].port)
       \/ At(a, {"start", "stop", "restart"}, "act") /\ NoFile \in {compose[a], running[a]}
    /\ Throw(a)
    /\ UNCHANGED <<stack, files, host, world>>

\* The steps of which a failure changes nothing but the operation.
Fails(a) ==
    /\ \/ "docker" \in Faulty /\ task[a].at \in {"pull", "health", "act"}
       \/ "database" \in Faulty /\ task[a].at \in {"write", "backup", "pull", "up",
                                                  "health", "record", "flag", "down",
                                                  "cleanup", "delete", "act"}
       \/ "files" \in Faulty /\ task[a].at \in {"write", "backup", "swap", "cleanup"}
       \/ At(a, Deploys, "health") /\ ~up[a]
       \/ At(a, {"start", "restart"}, "act") /\ ~PortFree(a, running[a].port)
       \/ At(a, {"start", "stop", "restart"}, "act") /\ NoFile \in {compose[a], running[a]}
    /\ Throw(a)
    /\ UNCHANGED <<stack, files, host, world>>

-------------------------------------------------------------------------------
(* Around the operations *)

\* The store catalog is refreshed with a newer image tag.
Publish ==
    /\ catalog < MaxVersion
    /\ catalog' = catalog + 1
    /\ UNCHANGED <<stack, files, host, task, result, crashes>>

\* Mutant: the task brings the app up again instead of restarting what runs.
RestartRecreates(a) ==
    /\ Installed(a)
    /\ compose[a] # NoFile
    /\ PortFree(a, compose[a].port)
    /\ ComposeUp(a)
    /\ UNCHANGED <<stack, files, task, result, world>>

\* scheduled-tasks/service.ts, "restart-app": no guard, any moment.
ScheduledRestart(a) ==
    /\ Installed(a)
    /\ compose[a] # NoFile /\ running[a] # NoFile
    /\ PortFree(a, running[a].port)
    /\ up' = [up EXCEPT ![a] = TRUE]
    /\ UNCHANGED <<stack, files, running, task, result, world>>

\* The containers of a stop by themselves.
Exit(a) ==
    /\ "docker" \in Faulty
    /\ up[a]
    /\ up' = [up EXCEPT ![a] = FALSE]
    /\ UNCHANGED <<stack, files, running, task, result, world>>

\* The process dies: rows, files and containers stay as they are.
Crash ==
    /\ crashes < MaxCrashes
    /\ crashes' = crashes + 1
    /\ task' = [a \in App |-> Idle]
    /\ UNCHANGED <<catalog, stack, files, host, result>>

Operation(a) ==
    \/ PlanInstall(a) \/ Materialize(a)
    \/ PlanUpdate(a) \/ BackUp(a) \/ WriteUpdate(a)
    \/ Pull(a) \/ Up(a) \/ UpFails(a) \/ Healthy(a)
    \/ Restore(a) \/ RestoreFails(a) \/ ReUp(a) \/ DropBackup(a)
    \/ Record(a) \/ Flag(a)
    \/ PlanUninstall(a) \/ Down(a) \/ DownFails(a) \/ Cleanup(a) \/ DeleteRow(a)
    \/ PlanLifecycle(a) \/ Act(a)
    \/ Fails(a)

Next ==
    \/ \E a \in App : Operation(a) \/ ScheduledRestart(a) \/ Exit(a) \/ \E kind \in Requests[a] : Begin(a, kind)
    \/ Publish \/ Crash

Spec == Init /\ [][Next]_vars

\* docker and the database answer or time out; nothing else is fair.
FairSpec == Spec /\ \A a \in App : WF_vars(Operation(a))

-------------------------------------------------------------------------------
(* Properties *)

\* From the copy to the catch block, the .bak of an update is the file the
\* update found and the installed file is that one or the new one
\* (copyFile before writeFile, operations.ts:838-840).
BackupIsOriginal ==
    \A a \in App :
        task[a].at \in {"swap", "pull", "up", "health", "restore", "reup"}
            /\ task[a].kind = "update" =>
        /\ backup[a] = task[a].orig
        /\ compose[a] \in {task[a].orig, task[a].next}

\* The operation of a in this step ends with the given outcome.
Ends(a, outcome) == task[a] # Idle /\ task'[a] = Idle /\ result'[a] = outcome

\* An update that ends with an error while it was still replacing the app has left the file
\* it found ("restores backup compose when update apply fails", "... when update
\* health-check fails after compose up").  Two kinds of error leave the new file: the copy
\* back fails as well ("unrestored": the old or the new file, as far as the update had
\* got), or the update had done its work and only recording it fails (the row, the update
\* status or the last patch, after the try of operations.ts:819-951): then the new file is
\* in place and the containers are its own, though the operation says "error".
FailedUpdateRestores ==
    [][\A a \in App :
          task[a].kind = "update" /\ task[a].orig # NoFile /\ Ends(a, "error") =>
              CASE task[a].at = "unrestored" -> compose'[a] \in {task[a].orig, task[a].next}
                [] task[a].at \in {"record", "flag"} ->
                      compose'[a] = task[a].next /\ running'[a] = compose'[a]
                [] OTHER -> compose'[a] = task[a].orig]_vars

\* A successful install or redeploy, or an update that changed images, leaves
\* containers created from the file on disk; for the first two the row names
\* the port they publish.
SuccessDeploys ==
    [][\A a \in App :
          task[a].kind \in Deploys /\ task[a].next # NoFile /\ Ends(a, "success") =>
              /\ running'[a] = compose'[a]
              /\ task[a].kind # "update" => stack'[a] = running'[a].port]_vars

\* A successful uninstall of an installed app leaves no row, no file and no
\* container.
CleanUninstall ==
    [][\A a \in App :
          task[a].kind = "uninstall" /\ Installed(a) /\ Ends(a, "success") =>
              /\ stack'[a] = 0
              /\ compose'[a] = NoFile /\ backup'[a] = NoFile
              /\ running'[a] = NoFile]_vars

\* Whatever state the files, the containers and the other apps are in, every
\* operation reaches its end, where the guard is released.
OperationsEnd == \A a \in App : task[a] # Idle ~> task[a] = Idle

(* What a test of operations.ts says, and the code does not do *)

\* "treats update as no-op when installed images are already current": an
\* update that succeeds leaves containers of the version the file names.
UpdateDelivers ==
    [][\A a \in App :
          task[a].kind = "update" /\ Ends(a, "success") =>
              running'[a].version = compose'[a].version]_vars
===============================================================================
