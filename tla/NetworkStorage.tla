------------------------------ MODULE NetworkStorage ------------------------------
(***************************************************************************)
(* lib/server/modules/files/network-storage.ts: a network share is a row   *)
(* that reserves a mount path and a CIFS mount of the share on that path.  *)
(* Requests add, mount, unmount and remove shares; every minute a watcher  *)
(* mounts what has a row and is not mounted. The routes start the watcher, *)
(* so it runs once one of them has been loaded. Nothing is locked.         *)
(*                                                                         *)
(* One mount path and the shares that compete for it: paths do not         *)
(* interact, and names that differ only in characters the path drops get   *)
(* the same one.                                                           *)
(***************************************************************************)
EXTENDS Naturals, Sequences

CONSTANTS
    Share,
    ShareRequest,     \* bound: requests, each made once
    Watcher, NoShare,
    MaxFailures    \* bound: how often something fails

NetworkStorageAssumption ==
    /\ Watcher \notin ShareRequest /\ NoShare \notin Share
    /\ MaxFailures \in Nat

VARIABLES
    record,     \* the share in the row of the path, or None
    mounts,     \* shares mounted on the path, the visible one last
    folder,     \* the path exists
    pc, op,     \* where a request or the watcher stands, and what it does
    about,      \* the share it is about
    watching,   \* watcherRunning
    blame,      \* history: what went wrong, some of Cause
    wiped,      \* history: files of a mounted share were deleted
    failures

networkVars == <<record, mounts, folder, pc, op, about, watching, blame, wiped, failures>>
host        == <<record, mounts, folder, wiped>>

Proc  == ShareRequest \cup {Watcher}
Cause == {"probe", "database", "crossing"}
ShareOp    == {"add", "mount", "unmount", "remove", "watch"}
ShareStep  == {"checking", "inserting", "reading", "looking", "making", "probing", "mounting",
          "touching", "undoing", "asking", "unmounting", "deletingFiles", "verifying",
          "deletingRow"}

NetworkTypeOK ==
    /\ record \in Share \cup {NoShare}
    /\ mounts \in Seq(Share)
    /\ folder \in BOOLEAN /\ wiped \in BOOLEAN
    /\ pc \in [Proc -> ShareStep \cup {"idle", "done"}]
    /\ op \in [Proc -> ShareOp \cup {NoShare}]
    /\ about \in [Proc -> Share \cup {NoShare}]
    /\ watching \in BOOLEAN
    /\ blame \subseteq Cause
    /\ failures \in 0..MaxFailures

NetworkInit ==
    /\ record = NoShare /\ mounts = <<>> /\ folder = FALSE
    /\ pc = [p \in Proc |-> "idle"]
    /\ op = [p \in Proc |-> NoShare]
    /\ about = [p \in Proc |-> NoShare]
    /\ watching = FALSE /\ blame = {} /\ wiped = FALSE /\ failures = 0

-------------------------------------------------------------------------------
(* The host *)

AtWork(p)   == pc[p] \notin {"idle", "done"}
Mounted   == mounts # <<>>
Visible   == mounts[Len(mounts)]
Proceed(p, step) == pc' = [pc EXCEPT ![p] = step]
End(p)        == Proceed(p, IF p = Watcher THEN "idle" ELSE "done")

\* Something that others may rely on has changed under a request or the watcher.
Blame(p, causes) ==
    blame' = blame \cup causes \cup
        IF <<record', mounts'>> # <<record, mounts>> /\ \E q \in Proc \ {p} : AtWork(q)
        THEN {"crossing"} ELSE {}

Fault == failures < MaxFailures /\ failures' = failures + 1

\* What isMounted answers: a mountpoint command that fails or takes more than 15
\* seconds counts as "not mounted".
Probe(p, answer) ==
    \/ answer = Mounted /\ blame' = blame /\ failures' = failures
    \/ ~answer /\ Mounted /\ Fault /\ blame' = blame \cup {"probe"}

-------------------------------------------------------------------------------
(* What is asked for *)

AskAdd(r, s) ==
    /\ pc[r] = "idle"
    /\ Proceed(r, "checking")
    /\ op' = [op EXCEPT ![r] = "add"] /\ about' = [about EXCEPT ![r] = s]
    /\ watching' = TRUE
    /\ UNCHANGED <<host, blame, failures>>

AskExisting(r, s) ==
    /\ pc[r] = "idle"
    /\ Proceed(r, "reading")
    /\ \E o \in {"mount", "unmount", "remove"} : op' = [op EXCEPT ![r] = o]
    /\ about' = [about EXCEPT ![r] = s]
    /\ watching' = TRUE
    /\ UNCHANGED <<host, blame, failures>>

\* A request that only reads starts the watcher too.
Visit ==
    /\ ~watching /\ watching' = TRUE
    /\ UNCHANGED <<host, pc, op, about, blame, failures>>

\* runWatcherTick: a tick that finds one in flight returns.
WatcherTick ==
    /\ watching /\ pc[Watcher] = "idle"
    /\ IF record = NoShare THEN UNCHANGED <<pc, op, about, watching>>
       ELSE /\ Proceed(Watcher, "looking")
            /\ op' = [op EXCEPT ![Watcher] = "watch"]
            /\ about' = [about EXCEPT ![Watcher] = record]
    /\ UNCHANGED <<host, watching, blame, failures>>

-------------------------------------------------------------------------------
(* Rows *)

Check(p) ==
    /\ pc[p] = "checking"
    /\ IF record = NoShare THEN Proceed(p, "inserting") ELSE End(p)
    /\ UNCHANGED <<host, op, about, watching, blame, failures>>

\* The mount path is unique among the rows.
Insert(p) ==
    /\ pc[p] = "inserting"
    /\ IF record = NoShare
       THEN /\ record' = about[p]
            /\ Proceed(p, "making")
       ELSE End(p) /\ record' = record
    /\ UNCHANGED <<mounts, folder, wiped, op, about, watching, failures>>
    /\ Blame(p, {})

Read(p) ==
    /\ pc[p] = "reading"
    /\ IF record # about[p] THEN End(p)
       ELSE Proceed(p, IF op[p] = "mount" THEN "making" ELSE "asking")
    /\ UNCHANGED <<host, op, about, watching, blame, failures>>

Touch(p) ==
    /\ pc[p] = "touching"
    /\ \/ End(p) /\ UNCHANGED <<blame, failures>>
       \/ /\ Fault
          /\ IF op[p] # "add" THEN End(p) /\ blame' = blame
             ELSE Proceed(p, "undoing") /\ blame' = blame \cup {"database"}
    /\ UNCHANGED <<host, op, about, watching>>

\* deleteNetworkShareFromDb, in removeShare and in the rollback of addShare.
DeleteRow(p) ==
    /\ pc[p] \in {"undoing", "deletingRow"}
    /\ \/ /\ record' = IF record = about[p] THEN NoShare ELSE record
          /\ UNCHANGED <<mounts, failures>>
          /\ Blame(p, {})
       \/ /\ Fault /\ UNCHANGED <<record, mounts>>
          /\ Blame(p, {"database"})
    /\ End(p)
    /\ UNCHANGED <<folder, wiped, op, about, watching>>

-------------------------------------------------------------------------------
(* mountShareRecord *)

\* Mutant: the watcher takes the row for a mount.
BadLook(p) ==
    /\ pc[p] = "looking"
    /\ \E answer \in BOOLEAN : Probe(p, answer) /\ End(p)
    /\ UNCHANGED <<host, op, about, watching>>

Look(p) ==
    /\ pc[p] = "looking"
    /\ \E answer \in BOOLEAN :
          /\ Probe(p, answer)
          /\ IF answer THEN End(p) ELSE Proceed(p, "making")
    /\ UNCHANGED <<host, op, about, watching>>

MakeFolder(p) ==
    /\ pc[p] = "making"
    /\ folder' = TRUE
    /\ Proceed(p, "probing")
    /\ UNCHANGED <<record, mounts, wiped, op, about, watching, blame, failures>>

\* An add or a mount that finds the path mounted takes it for its own.
ProbeMount(p) ==
    /\ pc[p] = "probing"
    /\ \E answer \in BOOLEAN :
          /\ Probe(p, answer)
          /\ Proceed(p, IF answer THEN "touching" ELSE "mounting")
    /\ UNCHANGED <<host, op, about, watching>>

\* The kernel does not mount a share twice on one path.
Mount(p) ==
    /\ pc[p] = "mounting"
    /\ folder /\ (Mounted => Visible # about[p])
    /\ mounts' = Append(mounts, about[p])
    /\ Proceed(p, "touching")
    /\ UNCHANGED <<record, folder, wiped, op, about, watching, failures>>
    /\ Blame(p, {})

MountFails(p) ==
    /\ pc[p] = "mounting"
    /\ IF folder /\ (Mounted => Visible # about[p]) THEN Fault ELSE UNCHANGED failures
    /\ IF op[p] = "add" THEN Proceed(p, "undoing") ELSE End(p)
    /\ UNCHANGED <<host, op, about, watching, blame>>

-------------------------------------------------------------------------------
(* unmountShareRecord *)

AskToUnmount(p) ==
    /\ pc[p] = "asking"
    /\ \E answer \in BOOLEAN :
          /\ Probe(p, answer)
          /\ Proceed(p, IF answer THEN "unmounting" ELSE "deletingFiles")
    /\ UNCHANGED <<host, op, about, watching>>

\* After an error a removal looks again, any other request ends.
Throws(p) == IF op[p] = "remove" THEN Proceed(p, "verifying") ELSE End(p)

\* umount of a path that is not mounted any more is tolerated.
Unmount(p) ==
    /\ pc[p] = "unmounting"
    /\ mounts' = IF Mounted THEN SubSeq(mounts, 1, Len(mounts) - 1) ELSE mounts
    /\ Proceed(p, "deletingFiles")
    /\ UNCHANGED <<record, folder, wiped, op, about, watching, failures>>
    /\ Blame(p, {})

\* Mutant: a failed umount is logged, and the files are deleted.
BadUnmountFails(p) ==
    /\ pc[p] = "unmounting" /\ Mounted /\ Fault
    /\ Proceed(p, "deletingFiles")
    /\ UNCHANGED <<host, op, about, watching, blame>>

UnmountFails(p) ==
    /\ pc[p] = "unmounting" /\ Mounted /\ Fault
    /\ Throws(p)
    /\ UNCHANGED <<host, op, about, watching, blame>>

\* rm -rf of the path: on a mount it deletes what is there and fails on the path.
DeleteFiles(p) ==
    /\ pc[p] = "deletingFiles"
    /\ IF Mounted
       THEN /\ wiped' = TRUE /\ folder' = folder
            /\ Throws(p)
       ELSE /\ folder' = FALSE /\ wiped' = wiped
            /\ Proceed(p, IF op[p] = "remove" THEN "deletingRow" ELSE "touching")
    /\ UNCHANGED <<record, mounts, op, about, watching, blame, failures>>

Verify(p) ==
    /\ pc[p] = "verifying"
    /\ \E answer \in BOOLEAN :
          /\ Probe(p, answer)
          /\ IF answer THEN End(p) ELSE Proceed(p, "deletingRow")
    /\ UNCHANGED <<host, op, about, watching>>

-------------------------------------------------------------------------------

\* The host restarts: mounts and requests are gone, rows and folders are not.
HostReboots ==
    /\ Fault
    /\ mounts' = <<>> /\ watching' = FALSE
    /\ pc' = [p \in Proc |-> IF p = Watcher \/ pc[p] = "idle" THEN "idle" ELSE "done"]
    /\ UNCHANGED <<record, folder, op, about, blame, wiped>>

Steps(p) ==
    \/ Check(p) \/ Insert(p) \/ Read(p) \/ Touch(p) \/ DeleteRow(p)
    \/ Look(p) \/ MakeFolder(p) \/ ProbeMount(p) \/ Mount(p) \/ MountFails(p)
    \/ AskToUnmount(p) \/ Unmount(p) \/ UnmountFails(p) \/ DeleteFiles(p) \/ Verify(p)

NetworkNext ==
    \/ \E r \in ShareRequest, s \in Share : AskAdd(r, s) \/ AskExisting(r, s)
    \/ Visit \/ WatcherTick
    \/ \E p \in Proc : Steps(p)
    \/ HostReboots

NetworkSpec == NetworkInit /\ [][NetworkNext]_networkVars

-------------------------------------------------------------------------------

\* Files of a share are deleted only after a probe took a mounted path for a free one,
\* or when something was mounted or unmounted under a request at work.
SharesKeepTheirFiles == wiped => blame \cap {"probe", "crossing"} # {}

\* Once the watcher runs, a share with a row is mounted sooner or later: after a
\* restart, a failed mount or a request to unmount it.
RowIsMounted ==
    LET Expected == record # NoShare /\ watching /\ blame = {}
    IN Expected ~> (~Expected \/ mounts = <<record>>)
================================================================================
