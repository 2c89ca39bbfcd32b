-------------------------- MODULE AppDeploymentProofs --------------------------
(***************************************************************************)
(* What holds of AppDeployment for every number of apps, versions and      *)
(* crashes, and whatever fails.                                            *)
(***************************************************************************)
EXTENDS AppDeployment, TLAPS

(* Type correctness: the operation in progress apart from what it works on. *)

TaskOK ==
    /\ task \in [App -> [kind : Kind \cup {"none"}, at : Step,
                         next : File \cup {NoFile}, orig : File \cup {NoFile}]]
    /\ result \in [App -> {"none", "success", "error"}]

HostOK ==
    /\ catalog \in 0..MaxVersion
    /\ stack \in [App -> Port \cup {0}]
    /\ compose \in [App -> File \cup {NoFile}]
    /\ backup \in [App -> File \cup {NoFile}]
    /\ running \in [App -> File \cup {NoFile}]
    /\ up \in [App -> BOOLEAN]
    /\ crashes \in 0..MaxCrashes

\* The two parts make up the type invariant.
LEMMA TypeParts == TypeOK <=> TaskOK /\ HostOK
BY DEF TypeOK, TaskOK, HostOK

\* An operation that goes on only changes the step it is at.
LEMMA ProceedStep ==
    ASSUME TaskOK, NEW a \in App, NEW s \in Step, Proceed(a, s)
    PROVE  /\ TaskOK'
           /\ task'[a].kind = task[a].kind /\ task'[a].at = s
           /\ task'[a].next = task[a].next /\ task'[a].orig = task[a].orig
           /\ result' = result
           /\ \A b \in App \ {a} : task'[b] = task[b]
BY DEF TaskOK, Proceed

\* An operation that ends leaves its app idle, with its outcome.
LEMMA FinishStep ==
    ASSUME TaskOK, NEW a \in App, NEW o \in {"success", "error"}, Finish(a, o)
    PROVE  /\ TaskOK' /\ task'[a] = Idle /\ result'[a] = o
           /\ \A b \in App \ {a} : task'[b] = task[b] /\ result'[b] = result[b]
BY DEF TaskOK, Finish, Idle, Step

\* So it is when its last patch may fail.
LEMMA CompleteStep ==
    ASSUME TaskOK, NEW a \in App, Complete(a)
    PROVE  /\ TaskOK' /\ task'[a] = Idle
           /\ \A b \in App \ {a} : task'[b] = task[b] /\ result'[b] = result[b]
BY FinishStep DEF Complete

\* An operation that fails ends, unless it is an update that has a copy to put back.
LEMMA ThrowStep ==
    ASSUME TaskOK, NEW a \in App, Throw(a)
    PROVE  /\ TaskOK'
           /\ \/ /\ task[a].kind = "update" /\ task[a].at \in {"swap", "pull", "up", "health"}
                 /\ Proceed(a, "restore")
              \/ /\ ~(task[a].kind = "update" /\ task[a].at \in {"swap", "pull", "up", "health"})
                 /\ Finish(a, "error")
           /\ \A b \in App \ {a} : task'[b] = task[b] /\ result'[b] = result[b]
<1>1. "restore" \in Step
  BY DEF Step
<1> QED
  BY <1>1, ProceedStep, FinishStep DEF Throw

\* What the types say of the file of one app.
LEMMA FileParts ==
    ASSUME NEW f \in File \cup {NoFile}
    PROVE  /\ f.port \in Port \cup {0}
           /\ f # NoFile => f \in File
BY DEF File, NoFile

\* An install settles on a file of a version published so far, or ends.
LEMMA PlanInstallStep ==
    ASSUME TaskOK, HostOK, NEW a \in App, PlanInstall(a)
    PROVE  \/ Finish(a, "error")
           \/ /\ TaskOK'
              /\ task'[a].kind = task[a].kind /\ task'[a].at = "write"
              /\ task'[a].next \in File /\ task'[a].orig = task[a].orig
              /\ result' = result
              /\ \A b \in App \ {a} : task'[b] = task[b]
<1> SUFFICES ASSUME ~Finish(a, "error")
             PROVE  /\ TaskOK'
                    /\ task'[a].kind = task[a].kind /\ task'[a].at = "write"
                    /\ task'[a].next \in File /\ task'[a].orig = task[a].orig
                    /\ result' = result
                    /\ \A b \in App \ {a} : task'[b] = task[b]
  OBVIOUS
<1>1. PICK port \in Port, version \in 0..catalog :
         /\ task' = [task EXCEPT ![a].at = "write",
                                 ![a].next = [version |-> version, port |-> port]]
         /\ UNCHANGED result
  BY DEF PlanInstall
<1>2. [version |-> version, port |-> port] \in File
  BY DeploymentAssumption DEF HostOK, File, DeploymentAssumption
<1>3. "write" \in Step
  BY DEF Step
<1> QED
  BY <1>1, <1>2, <1>3 DEF TaskOK

\* An update remembers the file it found and wants that file with the newer image, or has
\* nothing to change, or ends.
LEMMA PlanUpdateStep ==
    ASSUME TaskOK, HostOK, NEW a \in App, PlanUpdate(a)
    PROVE  \/ Finish(a, "error")
           \/ Proceed(a, "flag") /\ compose[a] # NoFile
           \/ /\ TaskOK'
              /\ task'[a].kind = task[a].kind /\ task'[a].at = "backup"
              /\ task'[a].orig = compose[a] /\ compose[a] # NoFile
              /\ task'[a].next \in File
              /\ result' = result
              /\ \A b \in App \ {a} : task'[b] = task[b]
<1> SUFFICES ASSUME compose[a] # NoFile,
                    task' = [task EXCEPT ![a].at = "backup", ![a].orig = compose[a],
                                         ![a].next = [compose[a] EXCEPT !.version = catalog]],
                    UNCHANGED result
             PROVE  /\ TaskOK'
                    /\ task'[a].kind = task[a].kind /\ task'[a].at = "backup"
                    /\ task'[a].orig = compose[a] /\ compose[a] # NoFile
                    /\ task'[a].next \in File
                    /\ result' = result
                    /\ \A b \in App \ {a} : task'[b] = task[b]
  BY DEF PlanUpdate
<1>1. compose[a] \in File
  BY DEF HostOK
<1>2. [compose[a] EXCEPT !.version = catalog] \in File
  BY <1>1 DEF HostOK, File
<1>3. "backup" \in Step
  BY DEF Step
<1> QED
  BY <1>1, <1>2, <1>3 DEF TaskOK

\* Whatever step an operation takes, the operations keep their types, and those of the
\* other apps stay as they are.
LEMMA OperationTask ==
    ASSUME TaskOK, HostOK, NEW a \in App, Operation(a)
    PROVE  /\ TaskOK'
           /\ \A b \in App \ {a} : task'[b] = task[b] /\ result'[b] = result[b]
<1>1. CASE PlanInstall(a)
  BY <1>1, PlanInstallStep, FinishStep
<1>2. CASE Materialize(a)
  BY <1>2, ProceedStep, FinishStep, CompleteStep, ThrowStep DEF Materialize, Step
<1>3. CASE PlanUpdate(a)
  BY <1>3, PlanUpdateStep, ProceedStep, FinishStep DEF Step
<1>4. CASE BackUp(a)
  BY <1>4, ProceedStep, FinishStep, CompleteStep, ThrowStep DEF BackUp, Step
<1>5. CASE WriteUpdate(a)
  BY <1>5, ProceedStep, FinishStep, CompleteStep, ThrowStep DEF WriteUpdate, Step
<1>6. CASE Pull(a)
  BY <1>6, ProceedStep, FinishStep, CompleteStep, ThrowStep DEF Pull, Step
<1>7. CASE Up(a)
  BY <1>7, ProceedStep, FinishStep, CompleteStep, ThrowStep DEF Up, Step
<1>8. CASE UpFails(a)
  BY <1>8, ProceedStep, FinishStep, CompleteStep, ThrowStep DEF UpFails, Step
<1>9. CASE Healthy(a)
  BY <1>9, ProceedStep, FinishStep, CompleteStep, ThrowStep DEF Healthy, Step
<1>10. CASE Restore(a)
  BY <1>10, ProceedStep, FinishStep, CompleteStep, ThrowStep DEF Restore, Step
<1>11. CASE RestoreFails(a)
  BY <1>11, ProceedStep, FinishStep, CompleteStep, ThrowStep DEF RestoreFails, Step
<1>12. CASE ReUp(a)
  BY <1>12, ProceedStep, FinishStep, CompleteStep, ThrowStep DEF ReUp, Step
<1>13. CASE DropBackup(a)
  BY <1>13, ProceedStep, FinishStep, CompleteStep, ThrowStep DEF DropBackup, Step
<1>14. CASE Record(a)
  BY <1>14, ProceedStep, FinishStep, CompleteStep, ThrowStep DEF Record, Step
<1>15. CASE Flag(a)
  BY <1>15, ProceedStep, FinishStep, CompleteStep, ThrowStep DEF Flag, Step
<1>16. CASE PlanUninstall(a)
  BY <1>16, ProceedStep, FinishStep, CompleteStep, ThrowStep DEF PlanUninstall, Step
<1>17. CASE Down(a)
  BY <1>17, ProceedStep, FinishStep, CompleteStep, ThrowStep DEF Down, Step
<1>18. CASE DownFails(a)
  BY <1>18, ProceedStep, FinishStep, CompleteStep, ThrowStep DEF DownFails, Step
<1>19. CASE Cleanup(a)
  BY <1>19, ProceedStep, FinishStep, CompleteStep, ThrowStep DEF Cleanup, Step
<1>20. CASE DeleteRow(a)
  BY <1>20, ProceedStep, FinishStep, CompleteStep, ThrowStep DEF DeleteRow, Step
<1>21. CASE PlanLifecycle(a)
  BY <1>21, ProceedStep, FinishStep, CompleteStep, ThrowStep DEF PlanLifecycle, Step
<1>22. CASE Act(a)
  BY <1>22, ProceedStep, FinishStep, CompleteStep, ThrowStep DEF Act, Step
<1>23. CASE Fails(a)
  BY <1>23, ProceedStep, FinishStep, CompleteStep, ThrowStep DEF Fails, Step
<1> QED
  BY <1>1, <1>2, <1>3, <1>4, <1>5, <1>6, <1>7, <1>8, <1>9, <1>10, <1>11, <1>12, <1>13,
     <1>14, <1>15, <1>16, <1>17, <1>18, <1>19, <1>20, <1>21, <1>22, <1>23 DEF Operation

\* ... and so do the rows, files and containers.
LEMMA OperationHost ==
    ASSUME TaskOK, HostOK, NEW a \in App, Operation(a)
    PROVE  /\ HostOK'
           /\ \A b \in App \ {a} :
                 /\ stack'[b] = stack[b] /\ compose'[b] = compose[b]
                 /\ backup'[b] = backup[b] /\ running'[b] = running[b]
<1>n. task[a].next \in File \cup {NoFile}
  BY DEF TaskOK
<1>p. task[a].next.port \in Port \cup {0}
  BY <1>n, FileParts
<1> USE DEF HostOK, files, host, world
<1>1. CASE Materialize(a)
  BY <1>1, <1>n, <1>p DEF Materialize
<1>2. CASE BackUp(a)
  BY <1>2, <1>n, <1>p DEF BackUp
<1>3. CASE WriteUpdate(a)
  BY <1>3, <1>n, <1>p DEF WriteUpdate
<1>4. CASE Up(a)
  BY <1>4, <1>n, <1>p DEF Up, ComposeUp
<1>5. CASE UpFails(a)
  BY <1>5, <1>n, <1>p DEF UpFails, ComposeUpFails
<1>6. CASE Restore(a)
  BY <1>6, <1>n, <1>p DEF Restore
<1>7. CASE ReUp(a)
  BY <1>7, <1>n, <1>p DEF ReUp, ComposeUp, ComposeUpFails
<1>8. CASE DropBackup(a)
  BY <1>8, <1>n, <1>p DEF DropBackup
<1>9. CASE Record(a)
  BY <1>9, <1>n, <1>p DEF Record
<1>10. CASE Down(a)
  BY <1>10, <1>n, <1>p DEF Down
<1>11. CASE DownFails(a)
  BY <1>11, <1>n, <1>p DEF DownFails
<1>12. CASE Cleanup(a)
  BY <1>12, <1>n, <1>p DEF Cleanup
<1>13. CASE DeleteRow(a)
  BY <1>13, <1>n, <1>p DEF DeleteRow
<1>14. CASE Act(a)
  BY <1>14, <1>n, <1>p DEF Act
<1>15. CASE PlanInstall(a) \/ PlanUpdate(a) \/ Pull(a) \/ Healthy(a)
         \/ RestoreFails(a) \/ Flag(a) \/ PlanUninstall(a) \/ PlanLifecycle(a) \/ Fails(a)
  BY <1>15 DEF PlanInstall, PlanUpdate, Pull, Healthy, RestoreFails,
        Flag, PlanUninstall, PlanLifecycle, Fails
<1> QED
  BY <1>1, <1>2, <1>3, <1>4, <1>5, <1>6, <1>7, <1>8, <1>9, <1>10, <1>11, <1>12, <1>13,
     <1>14, <1>15 DEF Operation

\* Every step of the system keeps the types.
LEMMA NextTypeOK == TypeOK /\ [Next]_vars => TypeOK'
<1> SUFFICES ASSUME TypeOK, TaskOK, HostOK, [Next]_vars PROVE TaskOK' /\ HostOK'
  BY TypeParts, TypeParts' DEF TypeOK, TaskOK, HostOK
<1>1. ASSUME NEW a \in App, Operation(a) PROVE TaskOK' /\ HostOK'
  BY <1>1, OperationTask, OperationHost
<1>2. ASSUME NEW a \in App, ScheduledRestart(a) \/ Exit(a) PROVE TaskOK' /\ HostOK'
  BY <1>2 DEF ScheduledRestart, Exit, TaskOK, HostOK, files, world
<1>3. ASSUME NEW a \in App, NEW kind \in Requests[a], Begin(a, kind) PROVE TaskOK' /\ HostOK'
  <2>1. kind \in Kind
    BY DeploymentAssumption DEF DeploymentAssumption
  <2> QED
    BY <1>3, <2>1 DEF Begin, TaskOK, HostOK, Idle, Step, files, host, world
<1>4. CASE Publish \/ Crash
  BY <1>4, DeploymentAssumption
     DEF DeploymentAssumption, Publish, Crash, TaskOK, HostOK, Idle, Step, files, host
<1>5. CASE UNCHANGED vars
  BY <1>5 DEF vars, TaskOK, HostOK
<1> QED
  BY <1>1, <1>2, <1>3, <1>4, <1>5 DEF Next

\* So do the initial values.
LEMMA InitTypeOK == Init => TypeOK
BY DeploymentAssumption DEF DeploymentAssumption, Init, TypeOK, Idle, Step

\* Rows, files, containers and operations keep their types, whatever fails and whenever
\* the server restarts (operations.ts).
THEOREM DeploymentTypeCorrect == Spec => []TypeOK
BY InitTypeOK, NextTypeOK, PTL DEF Spec

-------------------------------------------------------------------------------
(* The state of an operation. What an install or a redeploy has written is  *)
(* what it wants, and what it has started is what it has written; an update *)
(* keeps a copy of the file it found as long as a step may fail; an         *)
(* uninstall that deletes the row has nothing else left to remove.          *)

DeployInv(a) ==
    task[a].kind \in {"install", "redeploy"} =>
       /\ task[a].at \in {"plan", "write", "pull", "up", "health", "record", "flag"}
       /\ task[a].at \notin {"plan", "write"} => compose[a] = task[a].next
       /\ task[a].at \in {"health", "record", "flag"} => running[a] = compose[a]
       /\ task[a].at = "flag" => stack[a] = task[a].next.port

UpdateInv(a) ==
    task[a].kind = "update" =>
       /\ task[a].at \in {"plan", "backup", "swap", "pull", "up", "health", "restore",
                          "unrestored", "reup", "discard", "tidy", "record", "flag"}
       /\ task[a].at = "plan" => task[a].orig = NoFile /\ task[a].next = NoFile
       /\ task[a].at \in {"backup", "reup", "discard"} => compose[a] = task[a].orig
       /\ task[a].at \in {"swap", "pull", "up", "health", "restore", "reup"} =>
             backup[a] = task[a].orig /\ compose[a] \in {task[a].orig, task[a].next}
       /\ task[a].at = "unrestored" => compose[a] \in {task[a].orig, task[a].next}
       /\ task[a].orig # NoFile => task[a].next # NoFile
       /\ task[a].at \in {"pull", "up", "health", "tidy", "record", "flag"}
             /\ task[a].next # NoFile => compose[a] = task[a].next
       /\ task[a].at \in {"health", "tidy", "record", "flag"} /\ task[a].next # NoFile =>
             running[a] = compose[a]

UninstallInv(a) ==
    task[a].kind = "uninstall" =>
       /\ task[a].at \in {"plan", "down", "cleanup", "delete"}
       /\ task[a].at = "cleanup" => running[a] = NoFile
       /\ task[a].at = "delete" =>
             \/ stack[a] = 0
             \/ compose[a] = NoFile /\ backup[a] = NoFile /\ running[a] = NoFile

\* An operation at work has no outcome yet, so that a crash does not count as its end.
AppInv(a) ==
    /\ task[a].kind = "none" => task[a] = Idle
    /\ task[a] # Idle => result[a] = "none"
    /\ task[a].kind \in {"start", "stop", "restart"} => task[a].at \in {"plan", "act"}
    /\ DeployInv(a) /\ UpdateInv(a) /\ UninstallInv(a)

Inv == TypeOK /\ \A a \in App : AppInv(a)

\* An app without an operation has nothing to hold.
LEMMA IdleInv == ASSUME NEW a \in App, task'[a] = Idle PROVE AppInv(a)'
BY DEF AppInv, DeployInv, UpdateInv, UninstallInv, Idle

\* What an operation relies on is of its own app only.
LEMMA OthersInv ==
    ASSUME NEW b \in App, AppInv(b),
           task'[b] = task[b], result'[b] = result[b], stack'[b] = stack[b],
           compose'[b] = compose[b], backup'[b] = backup[b], running'[b] = running[b]
    PROVE  AppInv(b)'
BY DEF AppInv, DeployInv, UpdateInv, UninstallInv

\* Every step of an operation leaves behind what its next step relies on.
LEMMA OperationInv ==
    ASSUME TaskOK, HostOK, NEW a \in App, AppInv(a), Operation(a)
    PROVE  AppInv(a)'
<1> USE DEF AppInv, DeployInv, UpdateInv, UninstallInv, At, Deploys, files, host, world
<1>1. CASE PlanInstall(a)
  BY <1>1, PlanInstallStep, FinishStep, IdleInv DEF PlanInstall, Idle
<1>2. CASE PlanUpdate(a)
  <2>1. /\ task[a].kind = "update" /\ task[a].at = "plan"
        /\ compose' = compose /\ task[a].next = NoFile
        /\ result[a] = "none"
    BY <1>2 DEF PlanUpdate, Idle
  <2>2. CASE Finish(a, "error")
    BY <2>2, FinishStep, IdleInv
  <2>3. CASE Proceed(a, "flag")
    <3>1. "flag" \in Step
      BY DEF Step
    <3> QED
      BY <2>1, <2>3, <3>1, ProceedStep
  <2>4. CASE ~Finish(a, "error") /\ ~Proceed(a, "flag")
    <3>1. /\ task'[a].kind = "update" /\ task'[a].at = "backup"
          /\ task'[a].orig = compose[a] /\ task'[a].next \in File /\ result' = result
      BY <1>2, <2>1, <2>4, PlanUpdateStep
    <3>2. task'[a].next # NoFile
      BY <3>1, DeploymentAssumption DEF File, NoFile, DeploymentAssumption
    <3> QED
      BY <2>1, <3>1, <3>2
  <2> QED
    BY <2>2, <2>3, <2>4
<1>3. CASE Materialize(a)
  BY <1>3, ProceedStep, FinishStep, CompleteStep, ThrowStep, IdleInv
     DEF Materialize, Idle, Step, HostOK
<1>4. CASE BackUp(a)
  BY <1>4, ProceedStep, FinishStep, CompleteStep, ThrowStep, IdleInv
     DEF BackUp, Idle, Step, HostOK
<1>5. CASE WriteUpdate(a)
  BY <1>5, ProceedStep, FinishStep, CompleteStep, ThrowStep, IdleInv
     DEF WriteUpdate, Idle, Step, HostOK
<1>6. CASE Pull(a)
  BY <1>6, ProceedStep, FinishStep, CompleteStep, ThrowStep, IdleInv
     DEF Pull, Idle, Step, HostOK
<1>7. CASE Up(a)
  BY <1>7, ProceedStep, FinishStep, CompleteStep, ThrowStep, IdleInv
     DEF Up, ComposeUp, Idle, Step, HostOK
<1>8. CASE UpFails(a)
  BY <1>8, ProceedStep, FinishStep, CompleteStep, ThrowStep, IdleInv
     DEF UpFails, ComposeUpFails, Idle, Step, HostOK
<1>9. CASE Healthy(a)
  BY <1>9, ProceedStep, FinishStep, CompleteStep, ThrowStep, IdleInv
     DEF Healthy, Idle, Step, HostOK
<1>10. CASE Restore(a)
  BY <1>10, ProceedStep, FinishStep, CompleteStep, ThrowStep, IdleInv
     DEF Restore, Idle, Step, HostOK
<1>11. CASE RestoreFails(a)
  BY <1>11, ProceedStep, FinishStep, CompleteStep, ThrowStep, IdleInv
     DEF RestoreFails, Idle, Step, HostOK
<1>12. CASE ReUp(a)
  BY <1>12, ProceedStep, FinishStep, CompleteStep, ThrowStep, IdleInv
     DEF ReUp, ComposeUp, ComposeUpFails, Idle, Step, HostOK
<1>13. CASE DropBackup(a)
  BY <1>13, ProceedStep, FinishStep, CompleteStep, ThrowStep, IdleInv
     DEF DropBackup, Idle, Step, HostOK
<1>14. CASE Record(a)
  BY <1>14, ProceedStep, FinishStep, CompleteStep, ThrowStep, IdleInv
     DEF Record, Idle, Step, HostOK
<1>15. CASE Flag(a)
  BY <1>15, ProceedStep, FinishStep, CompleteStep, ThrowStep, IdleInv
     DEF Flag, Idle, Step, HostOK
<1>16. CASE PlanUninstall(a)
  BY <1>16, ProceedStep, FinishStep, CompleteStep, ThrowStep, IdleInv
     DEF PlanUninstall, Installed, Idle, Step, HostOK
<1>17. CASE Down(a)
  BY <1>17, ProceedStep, FinishStep, CompleteStep, ThrowStep, IdleInv
     DEF Down, Idle, Step, HostOK
<1>18. CASE DownFails(a)
  BY <1>18, ProceedStep, FinishStep, CompleteStep, ThrowStep, IdleInv
     DEF DownFails, Idle, Step, HostOK
<1>19. CASE Cleanup(a)
  BY <1>19, ProceedStep, FinishStep, CompleteStep, ThrowStep, IdleInv
     DEF Cleanup, Idle, Step, HostOK
<1>20. CASE DeleteRow(a)
  BY <1>20, ProceedStep, FinishStep, CompleteStep, ThrowStep, IdleInv
     DEF DeleteRow, Idle, Step, HostOK
<1>21. CASE PlanLifecycle(a)
  BY <1>21, ProceedStep, FinishStep, CompleteStep, ThrowStep, IdleInv
     DEF PlanLifecycle, Idle, Step, HostOK
<1>22. CASE Act(a)
  BY <1>22, ProceedStep, FinishStep, CompleteStep, ThrowStep, IdleInv
     DEF Act, Idle, Step, HostOK
<1>23. CASE Fails(a)
  BY <1>23, ProceedStep, FinishStep, CompleteStep, ThrowStep, IdleInv
     DEF Fails, Idle, Step, HostOK
<1> QED
  BY <1>1, <1>2, <1>3, <1>4, <1>5, <1>6, <1>7, <1>8, <1>9, <1>10, <1>11, <1>12, <1>13,
     <1>14, <1>15, <1>16, <1>17, <1>18, <1>19, <1>20, <1>21, <1>22, <1>23 DEF Operation

\* The invariant is inductive: of the other steps, none touches what an operation relies on
\* but its beginning and a crash, which leave nothing to rely on.
LEMMA NextInv == Inv /\ [Next]_vars => Inv'
<1> SUFFICES ASSUME TypeOK, TaskOK, HostOK, \A a \in App : AppInv(a), [Next]_vars,
                    NEW b \in App
             PROVE  AppInv(b)'
  BY NextTypeOK, TypeParts DEF Inv
<1>1. ASSUME NEW a \in App, Operation(a) PROVE AppInv(b)'
  <2>1. CASE a = b
    BY <1>1, <2>1, OperationInv
  <2>2. CASE a # b
    BY <1>1, <2>2, OperationTask, OperationHost, OthersInv
  <2> QED
    BY <2>1, <2>2
<1>2. ASSUME NEW a \in App, ScheduledRestart(a) \/ Exit(a) PROVE AppInv(b)'
  BY <1>2, OthersInv DEF ScheduledRestart, Exit, files, world
<1>3. ASSUME NEW a \in App, NEW kind \in Requests[a], Begin(a, kind) PROVE AppInv(b)'
  <2>1. CASE a = b
    <3>1. task'[b] = [Idle EXCEPT !.kind = kind, !.at = "plan"] /\ result'[b] = "none"
      BY <1>3, <2>1 DEF Begin, TaskOK
    <3>2. kind \in Kind
      BY DeploymentAssumption DEF DeploymentAssumption
    <3> QED
      BY <3>1, <3>2 DEF AppInv, DeployInv, UpdateInv, UninstallInv, Idle, Kind
  <2>2. CASE a # b
    BY <1>3, <2>2, OthersInv DEF Begin, TaskOK, files, host, world
  <2> QED
    BY <2>1, <2>2
<1>4. CASE Publish
  BY <1>4, OthersInv DEF Publish, files, host
<1>5. CASE Crash
  BY <1>5, IdleInv DEF Crash
<1>6. CASE UNCHANGED vars
  BY <1>6, OthersInv DEF vars
<1> QED
  BY <1>1, <1>2, <1>3, <1>4, <1>5, <1>6 DEF Next

\* No operation is at work at the start.
LEMMA InitInv == Init => Inv
BY InitTypeOK DEF Init, Inv, AppInv, DeployInv, UpdateInv, UninstallInv, Idle

\* The invariant holds of every behaviour.
LEMMA InvHolds == Spec => []Inv
BY InitInv, NextInv, PTL DEF Spec

\* As long as a step of an update may still fail, the copy beside the file is the one the
\* update found (runUpdateOperation).
THEOREM BackupKept == Spec => []BackupIsOriginal
<1>1. Inv => BackupIsOriginal
  BY DEF Inv, AppInv, UpdateInv, BackupIsOriginal
<1> QED
  BY <1>1, InvHolds, PTL

-------------------------------------------------------------------------------
(* How operations end *)

\* The steps by which the operation of an app can end with an outcome: its own.
LEMMA EndsByItself ==
    ASSUME Inv, [Next]_vars, NEW a \in App, NEW o \in {"success", "error"}, Ends(a, o)
    PROVE  Operation(a)
<1>1. task[a] # Idle /\ task'[a] = Idle /\ result'[a] = o /\ result[a] = "none"
  BY DEF Ends, Inv, AppInv
<1>2. ASSUME NEW b \in App, b # a, Operation(b) PROVE FALSE
  BY <1>1, <1>2, OperationTask, TypeParts DEF Inv
<1>3. ASSUME NEW b \in App, ScheduledRestart(b) \/ Exit(b) PROVE FALSE
  BY <1>1, <1>3 DEF ScheduledRestart, Exit
<1>4. ASSUME NEW b \in App, NEW kind \in Requests[b], Begin(b, kind) PROVE FALSE
  BY <1>1, <1>4 DEF Begin, Inv, TypeOK
<1>5. ~Publish /\ ~Crash /\ ~UNCHANGED vars
  BY <1>1 DEF Publish, Crash, vars
<1> QED
  BY <1>2, <1>3, <1>4, <1>5 DEF Next

\* An operation that goes on does not end.
LEMMA GoesOn ==
    ASSUME TaskOK, NEW a \in App, NEW s \in Step, Proceed(a, s), task[a].kind # "none"
    PROVE  task'[a] # Idle
BY ProceedStep DEF Idle

\* An update that fails after it has copied the file puts it back, at whatever step it
\* fails, unless the copy back fails or the work was done.
LEMMA FailedUpdate ==
    ASSUME Inv, NEW a \in App, Operation(a), Ends(a, "error"),
           task[a].kind = "update", task[a].orig # NoFile
    PROVE  /\ task[a].at = "unrestored" => compose'[a] \in {task[a].orig, task[a].next}
           /\ task[a].at \in {"record", "flag"} =>
                 compose'[a] = task[a].next /\ running'[a] = compose'[a]
           /\ task[a].at \notin {"unrestored", "record", "flag"} => compose'[a] = task[a].orig
<1>1. TaskOK /\ UpdateInv(a)
  BY TypeParts DEF Inv, AppInv
<1>2. ~ (BackUp(a) \/ WriteUpdate(a) \/ Pull(a) \/ Up(a) \/ Healthy(a) \/ Restore(a)
         \/ RestoreFails(a) \/ ReUp(a) \/ Record(a))
  BY <1>1, GoesOn
     DEF BackUp, WriteUpdate, Pull, Up, Healthy, Restore, RestoreFails, ReUp, Record, Ends, Step
<1>3. ~PlanUpdate(a)
  BY <1>1 DEF PlanUpdate, At, UpdateInv
<1>4. ~ (PlanInstall(a) \/ Materialize(a) \/ PlanUninstall(a) \/ Down(a) \/ DownFails(a)
         \/ Cleanup(a) \/ DeleteRow(a) \/ PlanLifecycle(a) \/ Act(a))
  BY DEF PlanInstall, Materialize, PlanUninstall, Down, DownFails, Cleanup, DeleteRow,
         PlanLifecycle, Act, At
<1>5. ~UpFails(a)
  BY <1>1, GoesOn DEF UpFails, Throw, At, Ends, Step
<1>6. CASE Flag(a)
  BY <1>1, <1>6 DEF Flag, At, UpdateInv, files, host
<1>7. CASE DropBackup(a)
  <2>1. task[a].at # "tidy"
    BY <1>1, <1>7, GoesOn DEF DropBackup, Ends, Step
  <2> QED
    BY <1>1, <1>7, <2>1 DEF DropBackup, UpdateInv
<1>8. CASE Fails(a)
  <2>1. task[a].at \notin {"swap", "pull", "up", "health"}
    BY <1>1, <1>8, GoesOn DEF Fails, Throw, Ends, Step
  <2>2. task[a].at \in {"backup", "record", "flag"}
    BY <1>1, <1>8, <2>1 DEF Fails, At, Deploys, UpdateInv
  <2> QED
    BY <1>1, <1>8, <2>2 DEF Fails, files, host, UpdateInv
<1> QED
  BY <1>2, <1>3, <1>4, <1>5, <1>6, <1>7, <1>8 DEF Operation

\* An operation succeeds by its last patch only: that of a deployment, of an uninstall, or
\* of a start, stop or restart.
LEMMA Successes ==
    ASSUME Inv, NEW a \in App, Operation(a), Ends(a, "success")
    PROVE  Flag(a) \/ DeleteRow(a) \/ Act(a)
<1>1. TaskOK /\ HostOK /\ task[a].kind # "none"
  BY TypeParts DEF Inv, AppInv, Ends
<1>2. ~Finish(a, "error")
  BY <1>1, FinishStep DEF Ends
<1>3. \A s \in Step : ~Proceed(a, s)
  BY <1>1, GoesOn DEF Ends
<1>4. ~Throw(a)
  BY <1>2, <1>3 DEF Throw, Step
<1>5. ~ (PlanInstall(a) \/ PlanUpdate(a))
  BY <1>1, <1>2, <1>3, PlanInstallStep, PlanUpdateStep DEF Ends, Idle, Step
<1>6. ~ (Materialize(a) \/ BackUp(a) \/ WriteUpdate(a) \/ Pull(a) \/ Up(a) \/ UpFails(a)
         \/ Healthy(a) \/ Restore(a) \/ RestoreFails(a) \/ ReUp(a) \/ DropBackup(a) \/ Record(a))
  BY <1>2, <1>3, <1>4
     DEF Materialize, BackUp, WriteUpdate, Pull, Up, UpFails, Healthy, Restore, RestoreFails,
         ReUp, DropBackup, Record, Step
<1>7. ~ (PlanUninstall(a) \/ Down(a) \/ DownFails(a) \/ Cleanup(a) \/ PlanLifecycle(a)
         \/ Fails(a))
  BY <1>2, <1>3, <1>4 DEF PlanUninstall, Down, DownFails, Cleanup, PlanLifecycle, Fails, Step
<1> QED
  BY <1>5, <1>6, <1>7 DEF Operation

\* A failed update leaves the file it found, unless the copy back fails too, or only
\* recording the finished update fails: then the new file and its containers are in place
\* ("restores backup compose when update apply fails", operations.ts:819-951).
THEOREM FailedUpdatesRestore == Spec => FailedUpdateRestores
<1> DEFINE Left(a) ==
             CASE task[a].at = "unrestored" -> compose'[a] \in {task[a].orig, task[a].next}
               [] task[a].at \in {"record", "flag"} ->
                     compose'[a] = task[a].next /\ running'[a] = compose'[a]
               [] OTHER -> compose'[a] = task[a].orig
<1>1. ASSUME Inv, [Next]_vars, NEW a \in App,
             task[a].kind = "update", task[a].orig # NoFile, Ends(a, "error")
      PROVE  Left(a)
  <2>1. Operation(a)
    BY <1>1, EndsByItself
  <2> QED
    BY <1>1, <2>1, FailedUpdate
<1>2. Inv /\ [Next]_vars =>
        [\A a \in App :
            task[a].kind = "update" /\ task[a].orig # NoFile /\ Ends(a, "error") => Left(a)]_vars
  BY <1>1
<1> QED
  BY <1>2, InvHolds, PTL DEF Spec, FailedUpdateRestores

\* A deployment that succeeds and had something to do leaves containers of the file on
\* disk, and a row with the port they publish (runInstallOrRedeployOperation).
THEOREM SuccessesDeploy == Spec => SuccessDeploys
<1>1. ASSUME Inv, [Next]_vars, NEW a \in App,
             task[a].kind \in Deploys, task[a].next # NoFile, Ends(a, "success")
      PROVE  /\ running'[a] = compose'[a]
             /\ task[a].kind # "update" => stack'[a] = running'[a].port
  <2>1. Flag(a) \/ DeleteRow(a) \/ Act(a)
    BY <1>1, EndsByItself, Successes
  <2>2. Flag(a)
    BY <1>1, <2>1 DEF DeleteRow, Act, At, Deploys
  <2> QED
    BY <1>1, <2>2 DEF Inv, AppInv, DeployInv, UpdateInv, Flag, At, Deploys, files, host
<1>2. Inv /\ [Next]_vars =>
        [\A a \in App :
            task[a].kind \in Deploys /\ task[a].next # NoFile /\ Ends(a, "success") =>
                /\ running'[a] = compose'[a]
                /\ task[a].kind # "update" => stack'[a] = running'[a].port]_vars
  BY <1>1
<1> QED
  BY <1>2, InvHolds, PTL DEF Spec, SuccessDeploys

\* An uninstall that succeeds leaves no row, no file and no container of an installed app
\* (runUninstallOperation).
THEOREM UninstallsAreClean == Spec => CleanUninstall
<1>1. ASSUME Inv, [Next]_vars, NEW a \in App,
             task[a].kind = "uninstall", Installed(a), Ends(a, "success")
      PROVE  /\ stack'[a] = 0
             /\ compose'[a] = NoFile /\ backup'[a] = NoFile
             /\ running'[a] = NoFile
  <2>1. Flag(a) \/ DeleteRow(a) \/ Act(a)
    BY <1>1, EndsByItself, Successes
  <2>2. DeleteRow(a)
    BY <1>1, <2>1 DEF Flag, Act, At, Deploys
  <2> QED
    BY <1>1, <2>2
       DEF Inv, TypeOK, AppInv, UninstallInv, DeleteRow, At, Installed, files, host
<1>2. Inv /\ [Next]_vars =>
        [\A a \in App :
            task[a].kind = "uninstall" /\ Installed(a) /\ Ends(a, "success") =>
                /\ stack'[a] = 0
                /\ compose'[a] = NoFile /\ backup'[a] = NoFile
                /\ running'[a] = NoFile]_vars
  BY <1>1
<1> QED
  BY <1>2, InvHolds, PTL DEF Spec, CleanUninstall
-------------------------------------------------------------------------------
(* What OperationsEnd rests on: an operation goes forward, and nobody takes it back. *)

\* At most so many steps are left.
StepsLeft ==
    [s \in Step |->
        CASE s = "idle" -> 0 [] s \in {"flag", "delete", "act", "discard", "unrestored"} -> 1
          [] s \in {"record", "cleanup", "reup"} -> 2 [] s \in {"tidy", "down", "restore"} -> 3
          [] s = "health" -> 4 [] s = "up" -> 5 [] s = "pull" -> 6 [] s \in {"write", "swap"} -> 7
          [] s = "backup" -> 8 [] s = "plan" -> 9]

\* What a step does to the operation of an app: nothing, begin it, end it with the process, or
\* bring it closer to its end.
GoesForward(a) ==
    \/ task'[a] = task[a]
    \/ task[a] = Idle /\ \E kind \in Requests[a] : Begin(a, kind)
    \/ Crash
    \/ Operation(a) /\ StepsLeft[task'[a].at] < StepsLeft[task[a].at]

OperationsGoForward == [][\A a \in App : GoesForward(a)]_vars

\* A step of an operation always does so.
EveryStepCounts ==
    [][\A a \in App : Operation(a) => StepsLeft[task[a].at]' < StepsLeft[task[a].at]]_vars

LEMMA Ranks ==
    /\ StepsLeft["idle"] = 0 /\ StepsLeft["flag"] = 1 /\ StepsLeft["delete"] = 1 /\ StepsLeft["act"] = 1
    /\ StepsLeft["discard"] = 1 /\ StepsLeft["unrestored"] = 1 /\ StepsLeft["record"] = 2
    /\ StepsLeft["cleanup"] = 2 /\ StepsLeft["reup"] = 2 /\ StepsLeft["tidy"] = 3
    /\ StepsLeft["down"] = 3 /\ StepsLeft["restore"] = 3 /\ StepsLeft["health"] = 4
    /\ StepsLeft["up"] = 5 /\ StepsLeft["pull"] = 6 /\ StepsLeft["write"] = 7
    /\ StepsLeft["swap"] = 7 /\ StepsLeft["backup"] = 8 /\ StepsLeft["plan"] = 9
BY DEF StepsLeft, Step

\* An operation that ends has no step left.
LEMMA FinishCounts ==
    ASSUME TaskOK, NEW a \in App, NEW o \in {"success", "error"}, Finish(a, o),
           task[a].at \in Step \ {"idle"}
    PROVE  StepsLeft[task'[a].at] < StepsLeft[task[a].at]
<1>1. task'[a].at = "idle"
  BY FinishStep DEF Idle
<1>2. QED
  BY <1>1, Ranks DEF Step

LEMMA ThrowCounts ==
    ASSUME TaskOK, NEW a \in App, Throw(a), task[a].at \in Step \ {"idle"}
    PROVE  StepsLeft[task'[a].at] < StepsLeft[task[a].at]
<1>1. CASE task[a].at \in {"swap", "pull", "up", "health"} /\ Proceed(a, "restore")
  BY <1>1, ProceedStep, Ranks DEF Step
<1>2. CASE Finish(a, "error")
  BY <1>2, FinishCounts
<1>3. QED
  BY <1>1, <1>2, ThrowStep

LEMMA OperationCounts ==
    ASSUME TaskOK, HostOK, NEW a \in App, Operation(a)
    PROVE  StepsLeft[task'[a].at] < StepsLeft[task[a].at]
<1> USE DEF At
<1>1. \A s \in {"plan", "write", "backup", "swap", "pull", "up", "health", "restore", "unrestored",
                "reup", "discard", "tidy", "record", "flag", "down", "cleanup", "delete", "act"} :
         s \in Step \ {"idle"}
  BY DEF Step
<1>2. task[a].at \in Step \ {"idle"}
  BY <1>1 DEF Operation, PlanInstall, Materialize, PlanUpdate, BackUp, WriteUpdate, Pull, Up, UpFails,
              Healthy, Restore, RestoreFails, ReUp, DropBackup, Record, Flag, PlanUninstall, Down,
              DownFails, Cleanup, DeleteRow, PlanLifecycle, Act, Fails
<1>3. (Finish(a, "error") \/ Complete(a) \/ Throw(a)) => StepsLeft[task'[a].at] < StepsLeft[task[a].at]
  BY <1>2, FinishCounts, ThrowCounts DEF Complete
<1>4. CASE PlanInstall(a)
  BY <1>3, <1>4, PlanInstallStep, Ranks DEF PlanInstall
<1>5. CASE PlanUpdate(a)
  <2>1. task[a].at = "plan"
    BY <1>5 DEF PlanUpdate
  <2>2. Finish(a, "error") \/ Proceed(a, "flag") \/ task'[a].at = "backup"
    BY <1>5, PlanUpdateStep
  <2>3. Proceed(a, "flag") => task'[a].at = "flag"
    BY <1>1, ProceedStep
  <2>4. QED
    BY <1>3, <2>1, <2>2, <2>3, Ranks
<1>6. CASE Materialize(a) \/ BackUp(a) \/ WriteUpdate(a)
  BY <1>1, <1>3, <1>6, ProceedStep, Ranks DEF Materialize, BackUp, WriteUpdate
<1>7. CASE Pull(a) \/ Up(a) \/ UpFails(a)
  BY <1>1, <1>3, <1>7, ProceedStep, Ranks DEF Pull, Up, UpFails
<1>8. CASE Healthy(a)
  BY <1>1, <1>3, <1>8, ProceedStep, Ranks DEF Healthy
<1>9. CASE Restore(a) \/ RestoreFails(a) \/ ReUp(a)
  BY <1>1, <1>3, <1>9, ProceedStep, Ranks DEF Restore, RestoreFails, ReUp
<1>10. CASE DropBackup(a)
  BY <1>1, <1>3, <1>10, ProceedStep, Ranks DEF DropBackup
<1>11. CASE Record(a) \/ Flag(a)
  BY <1>1, <1>3, <1>11, ProceedStep, Ranks DEF Record, Flag
<1>12. CASE PlanUninstall(a)
  BY <1>1, <1>3, <1>12, ProceedStep, Ranks DEF PlanUninstall
<1>13. CASE Down(a) \/ DownFails(a) \/ Cleanup(a) \/ DeleteRow(a)
  BY <1>1, <1>3, <1>13, ProceedStep, Ranks DEF Down, DownFails, Cleanup, DeleteRow
<1>14. CASE PlanLifecycle(a) \/ Act(a)
  BY <1>1, <1>3, <1>14, ProceedStep, Ranks DEF PlanLifecycle, Act
<1>15. CASE Fails(a)
  BY <1>3, <1>15 DEF Fails
<1>16. QED
  BY <1>4, <1>5, <1>6, <1>7, <1>8, <1>9, <1>10, <1>11, <1>12, <1>13, <1>14, <1>15 DEF Operation

LEMMA StepForward ==
    ASSUME TypeOK, [Next]_vars, NEW a \in App PROVE GoesForward(a)
<1>1. TaskOK /\ HostOK
  BY TypeParts
<1>2. ASSUME NEW b \in App, Operation(b) PROVE GoesForward(a)
  <2>1. CASE a = b
    BY <1>1, <1>2, <2>1, OperationCounts DEF GoesForward
  <2>2. CASE a # b
    BY <1>1, <1>2, <2>2, OperationTask DEF GoesForward
  <2>3. QED
    BY <2>1, <2>2
<1>3. ASSUME NEW b \in App, NEW kind \in Requests[b], Begin(b, kind) PROVE GoesForward(a)
  <2>1. CASE a = b
    BY <1>3, <2>1 DEF GoesForward, Begin
  <2>2. CASE a # b
    BY <1>1, <1>3, <2>2 DEF GoesForward, Begin, TaskOK
  <2>3. QED
    BY <2>1, <2>2
<1>4. CASE Publish \/ UNCHANGED vars \/ \E b \in App : ScheduledRestart(b) \/ Exit(b)
  BY <1>4 DEF GoesForward, Publish, vars, ScheduledRestart, Exit
<1>5. CASE Crash
  BY <1>5 DEF GoesForward
<1>6. QED
  BY <1>2, <1>3, <1>4, <1>5 DEF Next

\* operations.ts: whatever fails, whatever the other apps, the catalog and the containers do
\* meanwhile, an operation takes at most nine steps to the end where its guard is released: each
\* of its steps brings it closer, and only its own steps or the end of the process move it.
THEOREM OperationsMoveOn == Spec => OperationsGoForward /\ EveryStepCounts
<1>1. TypeOK /\ [Next]_vars => [\A a \in App : GoesForward(a)]_vars
  BY StepForward
<1>2. TypeOK /\ [Next]_vars
      => [\A a \in App : Operation(a) => StepsLeft[task[a].at]' < StepsLeft[task[a].at]]_vars
  BY OperationCounts, TypeParts DEF StepsLeft
<1>3. QED
  BY <1>1, <1>2, DeploymentTypeCorrect, PTL DEF Spec, OperationsGoForward, EveryStepCounts
================================================================================
